---- MODULE Spec2Model ----
(***************************************************************************)
(* claudelint: repository discovery (RepositoryContext) and rule           *)
(* orchestration (ClaudeLinter), modelled from the Python sources.         *)
(*                                                                         *)
(* Paths are sequences of path components.  A string is modelled by the    *)
(* sequence of its '/'-separated components, so "./plugins/a" is           *)
(* <<".", "plugins", "a">>, "../out" is <<"..", "out">> and the empty      *)
(* string is << >>.  JSON values are tagged records (field t).             *)
(***************************************************************************)
EXTENDS Integers, Sequences, FiniteSets, TLC

VARIABLES
    fs,                 \* the file system: canonical path -> node
    listing,            \* order in which plugins/ is iterated (Path.iterdir)
    pc,                 \* "new", "built" (constructed) or "raised"
    exc,                \* exception type that left the constructor, "" if none
    repo_type,          \* RepositoryContext.repo_type
    marketplace_data,   \* RepositoryContext.marketplace_data
    plugin_metadata,    \* RepositoryContext.plugin_metadata
    plugins,            \* RepositoryContext.plugins
    log,                \* records emitted through logger.warning / logger.info
    ret,                \* what the last operation called on the context returned
    config_file,        \* rules mapping of the configuration as it was loaded
    config_rules,       \* LinterConfig.rules, the live (mutable) mapping
    custom_rules,       \* LinterConfig.custom_rules
    units,              \* the external check units: path -> what loading it yields
    behaviour,          \* what each check class's check() does on this repository
    lpc,                \* ClaudeLinter: "new", "loaded" (constructed) or "raised"
    lexc,               \* exception type that left ClaudeLinter.__init__, "" if none
    rules,              \* ClaudeLinter.rules, the active list
    run_state,          \* last run(): "idle", "returned" or "raised"
    violations,         \* what the last run() returned
    ran,                \* classes whose check() the last run() invoked, in order
    stderr,             \* rule ids run() reported on the operator stream
    args,               \* command line of main(): path, --config, --verbose, --strict
    config_strict,      \* LinterConfig.strict
    stdout,             \* lines of the report main() printed
    exit_code           \* status main() exited with after a run, -1 before

ctxVars == <<fs, listing, pc, exc, repo_type, marketplace_data, plugin_metadata, plugins, log, ret>>
lintVars == <<config_file, config_rules, custom_rules, units, behaviour, lpc, lexc, rules,
              run_state, violations, ran, stderr, args, config_strict,
                   stdout, exit_code>>
vars == <<ctxVars, lintVars>>

(***************************************************************************)
(* Bounds                                                                  *)
(***************************************************************************)
MaxEntries == 2        \* longest plugins array of a registry document
MaxViolations == 2     \* most violations one check() returns

(***************************************************************************)
(* JSON values                                                             *)
(***************************************************************************)
JNull == [t |-> "null"]
JBool(v) == [t |-> "bool", b |-> v]
JNum(v) == [t |-> "num", n |-> v]
JStr(p) == [t |-> "str", parts |-> p]
JList(s) == [t |-> "list", items |-> s]
JObj(fields) == [t |-> "obj", f |-> fields]
NoFields == [k \in {} |-> JNull]

\* Python truth value of a decoded JSON value (bool(x), `not x`, `if x`)
Truthy(v) ==
    CASE v.t = "null" -> FALSE
      [] v.t = "bool" -> v.b
      [] v.t = "num" -> v.n # 0
      [] v.t = "str" -> v.parts # << >>
      [] v.t = "list" -> v.items # << >>
      [] v.t = "obj" -> DOMAIN v.f # {}

\* dict.get(key, default) on a decoded JSON object
DictGet(o, key, default) == IF key \in DOMAIN o.f THEN o.f[key] ELSE default

(***************************************************************************)
(* File system and pathlib                                                 *)
(***************************************************************************)
Root == <<"r">>
Outside == <<"out">>

DirNode == [kind |-> "dir"]
FileNode(doc) == [kind |-> "file", data |-> doc]
LinkNode(target) == [kind |-> "link", target |-> target]

Parent(p) == IF Len(p) <= 1 THEN p ELSE SubSeq(p, 1, Len(p) - 1)

\* Path.resolve(): walks the components, ".." pops, symlinks are followed
RECURSIVE ResolveFrom(_, _)
ResolveFrom(cur, rest) ==
    IF rest = << >> THEN cur
    ELSE LET c == Head(rest)
             next == Append(cur, c)
         IN IF c = "." THEN ResolveFrom(cur, Tail(rest))
            ELSE IF c = ".." THEN ResolveFrom(Parent(cur), Tail(rest))
            ELSE IF next \in DOMAIN fs /\ fs[next].kind = "link"
                 THEN ResolveFrom(fs[next].target, Tail(rest))
                 ELSE ResolveFrom(next, Tail(rest))

Resolve(p) == ResolveFrom(<<Head(p)>>, Tail(p))

\* Path.exists(), Path.is_dir(): both follow symlinks
Exists(p) == Resolve(p) \in DOMAIN fs
IsDir(p) == Exists(p) /\ fs[Resolve(p)].kind = "dir"

\* candidate.relative_to(root) succeeds iff root is a prefix of candidate
RelativeTo(candidate, root) ==
    /\ Len(candidate) >= Len(root)
    /\ SubSeq(candidate, 1, Len(root)) = root

\* Path.name
BaseName(p) == p[Len(p)]

\* name.startswith("."): component names are atomic strings in the model
DotNames == {".", "..", ".h", ".claude-plugin"}
StartsWithDot(name) == name \in DotNames

ManifestDir(p) == p \o <<".claude-plugin">>
ManifestFile(p) == p \o <<".claude-plugin", "plugin.json">>
RegistryFile == Root \o <<".claude-plugin", "marketplace.json">>
PluginsDir == Root \o <<"plugins">>

\* open(p) + json.load: "" when it returns, else the exception type raised
JsonLoadError(p) ==
    LET n == fs[Resolve(p)]
    IN IF n.kind # "file" THEN "IOError"
       ELSE IF n.data.t = "unreadable" THEN "IOError"
       ELSE IF n.data.t = "undecodable" THEN "UnicodeDecodeError"
       ELSE IF n.data.t = "invalid" THEN "JSONDecodeError"
       ELSE ""

JsonLoadValue(p) == fs[Resolve(p)].data

(***************************************************************************)
(* RepositoryContext                                                       *)
(***************************************************************************)
\* variant: the plugins container is consulted before the root marker
_detect_type_container_first ==
    IF Exists(RegistryFile) THEN "marketplace"
    ELSE IF Exists(PluginsDir) THEN "marketplace"
    ELSE IF Exists(ManifestDir(Root)) THEN "single-plugin"
    ELSE "unknown"

_detect_type ==
    IF Exists(RegistryFile) THEN "marketplace"
    ELSE IF Exists(ManifestDir(Root)) THEN "single-plugin"
    ELSE IF Exists(PluginsDir) THEN "marketplace"
    ELSE "unknown"

has_marketplace == Exists(RegistryFile)

\* returns [exc, value]; only JSONDecodeError and IOError are caught
_load_marketplace ==
    IF ~Exists(RegistryFile) THEN [exc |-> "", value |-> JNull]
    ELSE LET e == JsonLoadError(RegistryFile)
         IN IF e \in {"JSONDecodeError", "IOError"} THEN [exc |-> "", value |-> JNull]
            ELSE IF e # "" THEN [exc |-> e, value |-> JNull]
            ELSE [exc |-> "", value |-> JsonLoadValue(RegistryFile)]

LogRec(level, what, name) == [level |-> level, what |-> what, name |-> name]

\* variant: the candidate is not compared with the repository root
_resolve_plugin_source_unchecked(source, plugin_entry) ==
    LET plugin_name == DictGet(plugin_entry, "name", JStr(<<"unknown">>))
        candidate == Resolve(Root \o source.parts)
    IN IF source.t = "str"
       THEN IF ~Exists(candidate)
            THEN [found |-> FALSE, path |-> << >>,
                  log |-> LogRec("info", "not found locally", plugin_name)]
            ELSE IF ~IsDir(candidate)
            THEN [found |-> FALSE, path |-> << >>,
                  log |-> LogRec("info", "is not a directory", plugin_name)]
            ELSE [found |-> TRUE, path |-> candidate, log |-> LogRec("", "", plugin_name)]
       ELSE IF source.t = "obj"
       THEN [found |-> FALSE, path |-> << >>,
             log |-> LogRec("info", "uses remote source", plugin_name)]
       ELSE [found |-> FALSE, path |-> << >>,
             log |-> LogRec("info", "unknown source format", plugin_name)]

\* variant: a structured source is taken for the local directory d
_resolve_plugin_source_remote_as_local(source, plugin_entry) ==
    LET plugin_name == DictGet(plugin_entry, "name", JStr(<<"unknown">>))
        candidate == Resolve(Root \o source.parts)
    IN IF source.t = "str"
       THEN IF ~RelativeTo(candidate, Root)
            THEN [found |-> FALSE, path |-> << >>,
                  log |-> LogRec("warning", "escapes repository root", plugin_name)]
            ELSE IF ~Exists(candidate)
            THEN [found |-> FALSE, path |-> << >>,
                  log |-> LogRec("info", "not found locally", plugin_name)]
            ELSE IF ~IsDir(candidate)
            THEN [found |-> FALSE, path |-> << >>,
                  log |-> LogRec("info", "is not a directory", plugin_name)]
            ELSE [found |-> TRUE, path |-> candidate, log |-> LogRec("", "", plugin_name)]
       ELSE IF source.t = "obj"
       THEN [found |-> TRUE, path |-> Root \o <<"d">>,
             log |-> LogRec("info", "uses remote source", plugin_name)]
       ELSE [found |-> FALSE, path |-> << >>,
             log |-> LogRec("info", "unknown source format", plugin_name)]

\* returns [found, path, log]; found = FALSE is the None result
_resolve_plugin_source(source, plugin_entry) ==
    LET plugin_name == DictGet(plugin_entry, "name", JStr(<<"unknown">>))
        candidate == Resolve(Root \o source.parts)
    IN IF source.t = "str"
       THEN IF ~RelativeTo(candidate, Root)
            THEN [found |-> FALSE, path |-> << >>,
                  log |-> LogRec("warning", "escapes repository root", plugin_name)]
            ELSE IF ~Exists(candidate)
            THEN [found |-> FALSE, path |-> << >>,
                  log |-> LogRec("info", "not found locally", plugin_name)]
            ELSE IF ~IsDir(candidate)
            THEN [found |-> FALSE, path |-> << >>,
                  log |-> LogRec("info", "is not a directory", plugin_name)]
            ELSE [found |-> TRUE, path |-> candidate, log |-> LogRec("", "", plugin_name)]
       ELSE IF source.t = "obj"
       THEN [found |-> FALSE, path |-> << >>,
             log |-> LogRec("info", "uses remote source", plugin_name)]
       ELSE [found |-> FALSE, path |-> << >>,
             log |-> LogRec("info", "unknown source format", plugin_name)]

_is_valid_plugin_dir(path, marketplace_entry) ==
    LET plugin_markers == {ManifestFile(path), path \o <<"commands">>, path \o <<"agents">>,
                           path \o <<"skills">>, path \o <<"hooks">>}
    IN IF \E marker \in plugin_markers : Exists(marker) THEN TRUE
       ELSE DictGet(marketplace_entry, "strict", JBool(TRUE)) = JBool(FALSE)

\* variant: the set of discovered paths outlives the construction
Acc0_shared ==
    [plugins |-> << >>, discovered |-> {Resolve(plugins[i]) : i \in 1..Len(plugins)},
     metadata |-> << >>, log |-> << >>, exc |-> ""]

\* Loop state of discovery: the two collections the passes share, the
\* metadata mapping and log they write, and the exception that ended it.
Acc0 == [plugins |-> << >>, discovered |-> {}, metadata |-> << >>, log |-> << >>, exc |-> ""]

RECURSIVE ScanItems(_, _)
ScanItems(items, acc) ==
    IF items = << >> THEN acc
    ELSE LET item == PluginsDir \o <<Head(items)>>
             resolved_path == Resolve(item)
         IN IF ~IsDir(item) \/ StartsWithDot(Head(items))
            THEN ScanItems(Tail(items), acc)
            ELSE IF ~(Exists(ManifestDir(item)) \/ Exists(item \o <<"commands">>))
            THEN ScanItems(Tail(items), acc)
            ELSE IF resolved_path \notin acc.discovered
            THEN ScanItems(Tail(items),
                           [acc EXCEPT !.plugins = Append(@, item),
                                       !.discovered = @ \cup {resolved_path}])
            ELSE ScanItems(Tail(items), acc)

_discover_from_plugins_dir(acc) ==
    IF ~Exists(PluginsDir) THEN acc
    ELSE IF ~IsDir(PluginsDir) THEN [acc EXCEPT !.exc = "NotADirectoryError"]
    ELSE ScanItems(listing, acc)

\* variant: the "skip duplicates" test is missing
DiscoverEntry_no_dedup(plugin_entry, acc) ==
    IF plugin_entry.t # "obj" THEN [acc EXCEPT !.exc = "AttributeError"]
    ELSE
    LET source == DictGet(plugin_entry, "source", JNull)
        r == _resolve_plugin_source(source, plugin_entry)
        logged == IF r.log.level = "" THEN acc.log ELSE Append(acc.log, r.log)
        plugin_path == r.path
        resolved_path == Resolve(plugin_path)
        is_strict == DictGet(plugin_entry, "strict", JBool(TRUE))
        has_plugin_json == Exists(ManifestFile(plugin_path))
    IN IF ~Truthy(source) THEN acc
       ELSE IF ~r.found THEN [acc EXCEPT !.log = logged]
       ELSE IF ~_is_valid_plugin_dir(plugin_path, plugin_entry) THEN acc
       ELSE [acc EXCEPT !.plugins = Append(@, plugin_path),
                        !.discovered = @ \cup {resolved_path},
                        !.metadata = IF ~Truthy(is_strict) /\ ~has_plugin_json
                                     THEN (resolved_path :> plugin_entry) @@ @
                                     ELSE @]

\* body of the loop over marketplace_data["plugins"] for one element
DiscoverEntry(plugin_entry, acc) ==
    IF plugin_entry.t # "obj" THEN [acc EXCEPT !.exc = "AttributeError"]
    ELSE
    LET source == DictGet(plugin_entry, "source", JNull)
        r == _resolve_plugin_source(source, plugin_entry)
        logged == IF r.log.level = "" THEN acc.log ELSE Append(acc.log, r.log)
        plugin_path == r.path
        resolved_path == Resolve(plugin_path)
        is_strict == DictGet(plugin_entry, "strict", JBool(TRUE))
        has_plugin_json == Exists(ManifestFile(plugin_path))
    IN IF ~Truthy(source) THEN acc
       ELSE IF ~r.found THEN [acc EXCEPT !.log = logged]
       ELSE IF resolved_path \in acc.discovered THEN acc
       ELSE IF ~_is_valid_plugin_dir(plugin_path, plugin_entry) THEN acc
       ELSE [acc EXCEPT !.plugins = Append(@, plugin_path),
                        !.discovered = @ \cup {resolved_path},
                        !.metadata = IF ~Truthy(is_strict) /\ ~has_plugin_json
                                     THEN (resolved_path :> plugin_entry) @@ @
                                     ELSE @]

RECURSIVE DiscoverEntries(_, _)
DiscoverEntries(entries, acc) ==
    IF entries = << >> \/ acc.exc # "" THEN acc
    ELSE DiscoverEntries(Tail(entries), DiscoverEntry(Head(entries), acc))

\* `"plugins" in data` for a truthy decoded value; "" or the exception type
ContainsError(data) == IF data.t \in {"num", "bool"} THEN "TypeError" ELSE ""

Contains(data, key) ==
    CASE data.t = "obj" -> key \in DOMAIN data.f
      [] data.t = "list" -> \E i \in 1..Len(data.items) : data.items[i] = JStr(<<key>>)
      [] data.t = "str" -> data.parts = <<key>>
      [] OTHER -> FALSE

_discover_from_marketplace(data, acc) ==
    IF ~Truthy(data) THEN acc
    ELSE IF ContainsError(data) # "" THEN [acc EXCEPT !.exc = "TypeError"]
    ELSE IF ~Contains(data, "plugins") THEN acc
    ELSE IF data.t # "obj" THEN [acc EXCEPT !.exc = "TypeError"]
    ELSE LET entries == data.f["plugins"]
         IN IF entries.t = "list" THEN DiscoverEntries(entries.items, acc)
            ELSE IF entries.t = "obj" /\ DOMAIN entries.f = {} THEN acc
            ELSE IF entries.t = "str" /\ entries.parts = << >> THEN acc
            ELSE IF entries.t \in {"obj", "str"} THEN [acc EXCEPT !.exc = "AttributeError"]
            ELSE [acc EXCEPT !.exc = "TypeError"]

_discover_plugins(rtype, data) ==
    IF rtype = "single-plugin"
    THEN [Acc0 EXCEPT !.plugins = <<Root>>, !.discovered = {Resolve(Root)}]
    ELSE IF rtype = "marketplace"
    THEN LET a == _discover_from_plugins_dir(Acc0)
         IN IF a.exc # "" THEN a ELSE _discover_from_marketplace(data, a)
    ELSE Acc0

\* RepositoryContext.__init__
Construct ==
    /\ pc = "new"
    /\ repo_type' = _detect_type
    /\ LET m == IF has_marketplace THEN _load_marketplace ELSE [exc |-> "", value |-> JNull]
       IN /\ marketplace_data' = m.value
          /\ IF m.exc # ""
             THEN /\ exc' = m.exc
                  /\ pc' = "raised"
                  /\ UNCHANGED <<plugin_metadata, plugins, log>>
             ELSE LET d == _discover_plugins(_detect_type, m.value)
                  IN /\ exc' = d.exc
                     /\ pc' = IF d.exc = "" THEN "built" ELSE "raised"
                     /\ plugin_metadata' = d.metadata
                     /\ plugins' = d.plugins
                     /\ log' = d.log
    /\ UNCHANGED <<fs, listing, ret>>

\* A second RepositoryContext is constructed from the same root
ConstructAgain ==
    /\ pc \in {"built", "raised"}
    /\ LET rtype == _detect_type
           m == IF has_marketplace THEN _load_marketplace ELSE [exc |-> "", value |-> JNull]
           d == IF m.exc # "" THEN [Acc0 EXCEPT !.exc = m.exc]
                ELSE _discover_plugins(rtype, m.value)
       IN ret' = [op |-> "construct", exc |-> d.exc, repo_type |-> rtype,
                  marketplace_data |-> m.value, plugins |-> d.plugins,
                  plugin_metadata |-> d.metadata]
    /\ UNCHANGED <<fs, listing, pc, exc, repo_type, marketplace_data, plugin_metadata, plugins, log>>

\* variant: retained registry metadata is consulted before the manifest
get_plugin_name_registry_first(plugin_path) ==
    LET resolved_path == Resolve(plugin_path)
        plugin_json == ManifestFile(plugin_path)
        e == JsonLoadError(plugin_json)
        data == JsonLoadValue(plugin_json)
        base == [exc |-> "", value |-> JStr(<<BaseName(plugin_path)>>)]
    IN IF resolved_path \in DOMAIN plugin_metadata
          /\ "name" \in DOMAIN plugin_metadata[resolved_path].f
       THEN [exc |-> "", value |-> plugin_metadata[resolved_path].f["name"]]
       ELSE IF ~Exists(plugin_json) THEN base
       ELSE IF e \in {"JSONDecodeError", "IOError"} THEN base
       ELSE IF e # "" THEN [exc |-> e, value |-> JNull]
       ELSE IF data.t # "obj" THEN [exc |-> "AttributeError", value |-> JNull]
       ELSE IF Truthy(DictGet(data, "name", JNull))
            THEN [exc |-> "", value |-> data.f["name"]]
            ELSE base

\* get_plugin_name(plugin_path): [exc, value]
get_plugin_name(plugin_path) ==
    LET resolved_path == Resolve(plugin_path)
        plugin_json == ManifestFile(plugin_path)
        e == JsonLoadError(plugin_json)
        data == JsonLoadValue(plugin_json)
        fallback ==
            IF resolved_path \in DOMAIN plugin_metadata
            THEN [exc |-> "",
                  value |-> DictGet(plugin_metadata[resolved_path], "name",
                                    JStr(<<BaseName(plugin_path)>>))]
            ELSE [exc |-> "", value |-> JStr(<<BaseName(plugin_path)>>)]
    IN IF ~Exists(plugin_json) THEN fallback
       ELSE IF e \in {"JSONDecodeError", "IOError"} THEN fallback
       ELSE IF e # "" THEN [exc |-> e, value |-> JNull]
       ELSE IF data.t # "obj" THEN [exc |-> "AttributeError", value |-> JNull]
       ELSE IF Truthy(DictGet(data, "name", JNull))
            THEN [exc |-> "", value |-> data.f["name"]]
            ELSE fallback

\* variant: every field of the retained entry is copied, source and strict too
get_plugin_metadata_unfiltered(plugin_path) ==
    LET resolved_path == Resolve(plugin_path)
        plugin_json == ManifestFile(plugin_path)
        e == JsonLoadError(plugin_json)
        loaded == IF ~Exists(plugin_json) \/ e \in {"JSONDecodeError", "IOError"}
                  THEN JObj(NoFields)
                  ELSE JsonLoadValue(plugin_json)
        marketplace_entry == plugin_metadata[resolved_path]
        kept == DOMAIN marketplace_entry.f
        merged == JObj([k \in DOMAIN loaded.f \cup kept |->
                          IF k \in kept THEN marketplace_entry.f[k] ELSE loaded.f[k]])
        OrNone(m) == IF Truthy(m) THEN m ELSE JNull
    IN IF Exists(plugin_json) /\ e \notin {"", "JSONDecodeError", "IOError"}
       THEN [exc |-> e, value |-> JNull]
       ELSE IF resolved_path \notin DOMAIN plugin_metadata
       THEN [exc |-> "", value |-> OrNone(loaded)]
       ELSE IF kept = {} THEN [exc |-> "", value |-> OrNone(loaded)]
       ELSE IF loaded.t # "obj" THEN [exc |-> "TypeError", value |-> JNull]
       ELSE [exc |-> "", value |-> merged]

\* get_plugin_metadata(plugin_path): [exc, value]
get_plugin_metadata(plugin_path) ==
    LET resolved_path == Resolve(plugin_path)
        plugin_json == ManifestFile(plugin_path)
        e == JsonLoadError(plugin_json)
        loaded == IF ~Exists(plugin_json) \/ e \in {"JSONDecodeError", "IOError"}
                  THEN JObj(NoFields)
                  ELSE JsonLoadValue(plugin_json)
        marketplace_entry == plugin_metadata[resolved_path]
        kept == DOMAIN marketplace_entry.f \ {"source", "strict"}
        merged == JObj([k \in DOMAIN loaded.f \cup kept |->
                          IF k \in kept THEN marketplace_entry.f[k] ELSE loaded.f[k]])
        OrNone(m) == IF Truthy(m) THEN m ELSE JNull
    IN IF Exists(plugin_json) /\ e \notin {"", "JSONDecodeError", "IOError"}
       THEN [exc |-> e, value |-> JNull]
       ELSE IF resolved_path \notin DOMAIN plugin_metadata
       THEN [exc |-> "", value |-> OrNone(loaded)]
       ELSE IF kept = {} THEN [exc |-> "", value |-> OrNone(loaded)]
       ELSE IF loaded.t # "obj" THEN [exc |-> "TypeError", value |-> JNull]
       ELSE [exc |-> "", value |-> merged]

\* RuleViolation built by Rule.violation
Violation(rule_id, severity, message, file_path) ==
    [rule_id |-> rule_id, severity |-> severity, message |-> message, file_path |-> file_path]

\* PluginJsonRequiredRule.check(context) for a rule instance of the given severity
RECURSIVE PluginJsonRequiredLoop(_, _, _)
PluginJsonRequiredLoop(paths, severity, found) ==
    IF paths = << >> THEN found
    ELSE LET plugin_path == Head(paths)
             plugin_json == ManifestFile(plugin_path)
             resolved_path == Resolve(plugin_path)
             optional ==
                 /\ resolved_path \in DOMAIN plugin_metadata
                 /\ DictGet(plugin_metadata[resolved_path], "strict", JBool(TRUE)) = JBool(FALSE)
         IN IF Exists(plugin_json) \/ optional
            THEN PluginJsonRequiredLoop(Tail(paths), severity, found)
            ELSE PluginJsonRequiredLoop(Tail(paths), severity,
                    Append(found,
                           Violation("plugin-json-required", severity, "Missing plugin.json",
                                     plugin_json)))

PluginJsonRequiredRule_check(severity) == PluginJsonRequiredLoop(plugins, severity, << >>)

\* A caller asks the constructed context for the name of a discovered plugin
GetPluginName ==
    /\ pc = "built"
    /\ \E i \in 1..Len(plugins) :
          LET r == get_plugin_name(plugins[i])
          IN ret' = [op |-> "get_plugin_name", path |-> plugins[i], exc |-> r.exc, value |-> r.value]
    /\ UNCHANGED <<fs, listing, pc, exc, repo_type, marketplace_data, plugin_metadata, plugins, log>>

\* variant: any named registry entry counts, whatever its name
is_registered_in_marketplace_any_name(plugin_name) ==
    IF ~Truthy(marketplace_data) THEN [exc |-> "", value |-> JBool(FALSE)]
    ELSE IF ~Contains(marketplace_data, "plugins") THEN [exc |-> "", value |-> JBool(FALSE)]
    ELSE LET entries == marketplace_data.f["plugins"]
         IN [exc |-> "",
             value |-> JBool(\E i \in 1..Len(entries.items) :
                                Truthy(DictGet(entries.items[i], "name", JNull)))]

\* is_registered_in_marketplace(plugin_name): [exc, value]
is_registered_in_marketplace(plugin_name) ==
    IF ~Truthy(marketplace_data) THEN [exc |-> "", value |-> JBool(FALSE)]
    ELSE IF ContainsError(marketplace_data) # "" THEN [exc |-> "TypeError", value |-> JNull]
    ELSE IF ~Contains(marketplace_data, "plugins") THEN [exc |-> "", value |-> JBool(FALSE)]
    ELSE IF marketplace_data.t # "obj" THEN [exc |-> "TypeError", value |-> JNull]
    ELSE LET entries == marketplace_data.f["plugins"]
         IN IF entries.t = "list"
            THEN IF \E i \in 1..Len(entries.items) : entries.items[i].t # "obj"
                 THEN [exc |-> "AttributeError", value |-> JNull]
                 ELSE [exc |-> "",
                       value |-> JBool(\E i \in 1..Len(entries.items) :
                                          DictGet(entries.items[i], "name", JNull) = plugin_name)]
            ELSE IF entries.t \in {"obj", "str"} /\ ~Truthy(entries)
            THEN [exc |-> "", value |-> JBool(FALSE)]
            ELSE [exc |-> "TypeError", value |-> JNull]

\* A caller asks the constructed context whether a name is in the registry
IsRegisteredInMarketplace ==
    /\ pc = "built"
    /\ \E name \in {JStr(<<"n1">>), JStr(<<"n2">>)} :
          LET r == is_registered_in_marketplace(name)
          IN ret' = [op |-> "is_registered_in_marketplace", name |-> name,
                     exc |-> r.exc, value |-> r.value]
    /\ UNCHANGED <<fs, listing, pc, exc, repo_type, marketplace_data, plugin_metadata, plugins, log>>

\* MarketplaceRegistrationRule.check(context) for a rule instance of the given
\* severity: [exc, value]; an exception of a context query ends the check
RECURSIVE MarketplaceRegistrationLoop(_, _, _)
MarketplaceRegistrationLoop(paths, severity, found) ==
    IF paths = << >> THEN [exc |-> "", value |-> found]
    ELSE LET plugin_name == get_plugin_name(Head(paths))
             registered == is_registered_in_marketplace(plugin_name.value)
         IN IF plugin_name.exc # "" THEN [exc |-> plugin_name.exc, value |-> << >>]
            ELSE IF registered.exc # "" THEN [exc |-> registered.exc, value |-> << >>]
            ELSE IF registered.value = JBool(TRUE)
            THEN MarketplaceRegistrationLoop(Tail(paths), severity, found)
            ELSE MarketplaceRegistrationLoop(Tail(paths), severity,
                    Append(found,
                           Violation("marketplace-registration", severity, plugin_name.value,
                                     RegistryFile)))

MarketplaceRegistrationRule_check(severity) ==
    IF ~has_marketplace THEN [exc |-> "", value |-> << >>]
    ELSE MarketplaceRegistrationLoop(plugins, severity, << >>)

\* The marketplace-registration check runs against the constructed context
CheckMarketplaceRegistration ==
    /\ pc = "built"
    /\ LET r == MarketplaceRegistrationRule_check("error")
       IN ret' = [op |-> "marketplace-registration", exc |-> r.exc, value |-> r.value]
    /\ UNCHANGED <<fs, listing, pc, exc, repo_type, marketplace_data, plugin_metadata, plugins, log>>

\* variant: the merged metadata is kept in plugin_metadata for the next call
GetPluginMetadata_caching ==
    /\ pc = "built"
    /\ \E i \in 1..Len(plugins) :
          LET r == get_plugin_metadata(plugins[i])
          IN /\ ret' = [op |-> "get_plugin_metadata", path |-> plugins[i], exc |-> r.exc,
                        value |-> r.value]
             /\ plugin_metadata' =
                   IF r.exc = "" /\ r.value.t = "obj"
                   THEN (Resolve(plugins[i]) :> r.value) @@ plugin_metadata
                   ELSE plugin_metadata
    /\ UNCHANGED <<fs, listing, pc, exc, repo_type, marketplace_data, plugins, log>>

\* A caller asks the constructed context for the metadata of a discovered plugin
GetPluginMetadata ==
    /\ pc = "built"
    /\ \E i \in 1..Len(plugins) :
          LET r == get_plugin_metadata(plugins[i])
          IN ret' = [op |-> "get_plugin_metadata", path |-> plugins[i], exc |-> r.exc, value |-> r.value]
    /\ UNCHANGED <<fs, listing, pc, exc, repo_type, marketplace_data, plugin_metadata, plugins, log>>

\* The plugin-json-required check runs against the constructed context
CheckPluginJsonRequired ==
    /\ pc = "built"
    /\ ret' = [op |-> "plugin-json-required", exc |-> "",
               value |-> PluginJsonRequiredRule_check("error")]
    /\ UNCHANGED <<fs, listing, pc, exc, repo_type, marketplace_data, plugin_metadata, plugins, log>>

(***************************************************************************)
(* Rule, LinterConfig, ClaudeLinter                                        *)
(***************************************************************************)
Severities == {"error", "warning", "info"}

\* A check class.  id_kind tells how the class defines rule_id: as a
\* property (read on the class it is the property object, not the string)
\* or as a plain class attribute.
RuleClass(cls, rule_id, id_kind, default_severity) ==
    [kind |-> "rule", cls |-> cls, rule_id |-> rule_id, id_kind |-> id_kind,
     default_severity |-> default_severity]
BaseRule == [kind |-> "base", cls |-> "Rule", rule_id |-> "", id_kind |-> "property",
             default_severity |-> ""]
NotARule(name) == [kind |-> "other", cls |-> name, rule_id |-> "", id_kind |-> "",
                   default_severity |-> ""]

BUILTIN_RULES ==
    << RuleClass("PluginJsonRequiredRule", "plugin-json-required", "property", "error"),
       RuleClass("PluginJsonValidRule", "plugin-json-valid", "property", "error"),
       RuleClass("PluginNamingRule", "plugin-naming", "property", "warning"),
       RuleClass("CommandsDirRequiredRule", "commands-dir-required", "property", "error"),
       RuleClass("CommandsExistRule", "commands-exist", "property", "warning"),
       RuleClass("PluginReadmeRule", "plugin-readme", "property", "warning"),
       RuleClass("CommandNamingRule", "command-naming", "property", "warning"),
       RuleClass("CommandFrontmatterRule", "command-frontmatter", "property", "error"),
       RuleClass("CommandSectionsRule", "command-sections", "property", "warning"),
       RuleClass("CommandNameFormatRule", "command-name-format", "property", "warning"),
       RuleClass("MarketplaceJsonValidRule", "marketplace-json-valid", "property", "error"),
       RuleClass("MarketplaceRegistrationRule", "marketplace-registration", "property", "error"),
       RuleClass("SkillFrontmatterRule", "skill-frontmatter", "property", "warning"),
       RuleClass("AgentFrontmatterRule", "agent-frontmatter", "property", "error"),
       RuleClass("HooksJsonValidRule", "hooks-json-valid", "property", "error"),
       RuleClass("McpValidJsonRule", "mcp-valid-json", "property", "error"),
       RuleClass("McpProhibitedRule", "mcp-prohibited", "property", "error") >>

NoConfig == [k \in {} |-> ""]
Auto == JStr(<<"auto">>)
RuleCfg(enabled, severity) == ("enabled" :> enabled) @@ ("severity" :> severity)

\* LinterConfig.default()
DefaultRules ==
    ("plugin-json-required" :> RuleCfg(JBool(TRUE), "error"))
    @@ ("plugin-json-valid" :> RuleCfg(JBool(TRUE), "error"))
    @@ ("plugin-naming" :> RuleCfg(JBool(TRUE), "warning"))
    @@ ("commands-dir-required" :> RuleCfg(JBool(FALSE), "warning"))
    @@ ("commands-exist" :> RuleCfg(JBool(FALSE), "info"))
    @@ ("command-naming" :> RuleCfg(JBool(TRUE), "warning"))
    @@ ("command-frontmatter" :> RuleCfg(JBool(TRUE), "error"))
    @@ ("command-sections" :> RuleCfg(JBool(TRUE), "warning"))
    @@ ("command-name-format" :> RuleCfg(JBool(TRUE), "warning"))
    @@ ("marketplace-json-valid" :> RuleCfg(Auto, "error"))
    @@ ("marketplace-registration" :> RuleCfg(Auto, "error"))
    @@ ("plugin-readme" :> RuleCfg(JBool(TRUE), "warning"))
    @@ ("skill-frontmatter" :> RuleCfg(JBool(TRUE), "warning"))

\* the value of `rule_class.rule_id`, read on the class
StrKey(id) == [is_str |-> TRUE, id |-> id]
ClassRuleId(rule_class) ==
    IF rule_class.id_kind = "attribute" THEN StrKey(rule_class.rule_id)
    ELSE [is_str |-> FALSE, id |-> "property object"]

\* LinterConfig.get_rule_config: self.rules.get(rule_id, {})
get_rule_config(key) ==
    IF key.is_str /\ key.id \in DOMAIN config_rules THEN config_rules[key.id] ELSE NoConfig

\* variant: the sentinel is not treated specially, only coerced
is_rule_enabled_coerce_only(rule_id) ==
    LET rule_config == get_rule_config(StrKey(rule_id))
        enabled == IF "enabled" \in DOMAIN rule_config THEN rule_config["enabled"]
                   ELSE JBool(TRUE)
    IN Truthy(enabled)

\* LinterConfig.is_rule_enabled(rule_id, context)
is_rule_enabled(rule_id) ==
    LET rule_config == get_rule_config(StrKey(rule_id))
        enabled == IF "enabled" \in DOMAIN rule_config THEN rule_config["enabled"]
                   ELSE JBool(TRUE)
    IN IF enabled = Auto THEN repo_type = "marketplace"
       ELSE Truthy(enabled)

\* A caller asks the configuration whether a rule is enabled for the context
IsRuleEnabled ==
    /\ pc = "built"
    /\ \E rule_id \in {"plugin-json-required", "marketplace-registration", "ext-attr"} :
          ret' = [op |-> "is_rule_enabled", exc |-> "", rule_id |-> rule_id,
                  value |-> is_rule_enabled(rule_id)]
    /\ UNCHANGED <<fs, listing, pc, exc, repo_type, marketplace_data, plugin_metadata, plugins, log>>

\* Rule.__init__(config) for an instance of rule_class: [exc, inst]
NewRule(rule_class, config) ==
    LET severity_str == IF "severity" \in DOMAIN config THEN config["severity"]
                        ELSE rule_class.default_severity
    IN IF severity_str \notin Severities THEN [exc |-> "ValueError", inst |-> << >>]
       ELSE [exc |-> "",
             inst |-> [cls |-> rule_class.cls, rule_id |-> rule_class.rule_id,
                       severity |-> severity_str, config |-> config]]

\* variant: the instance is added without asking is_rule_enabled
LoadClass_unfiltered(rule_class, acc) ==
    LET r == NewRule(rule_class, get_rule_config(ClassRuleId(rule_class)))
    IN IF r.exc # "" THEN [acc EXCEPT !.exc = r.exc]
       ELSE [acc EXCEPT !.rules = Append(@, r.inst)]

\* loop body shared by _load_builtin_rules and _load_custom_rule: build the
\* instance with the configuration found under rule_class.rule_id, keep it
\* when is_rule_enabled(rule_instance.rule_id)
LoadClass(rule_class, acc) ==
    LET r == NewRule(rule_class, get_rule_config(ClassRuleId(rule_class)))
    IN IF r.exc # "" THEN [acc EXCEPT !.exc = r.exc]
       ELSE IF is_rule_enabled(r.inst.rule_id) THEN [acc EXCEPT !.rules = Append(@, r.inst)]
       ELSE acc

RECURSIVE LoadClasses(_, _)
LoadClasses(classes, acc) ==
    IF classes = << >> \/ acc.exc # "" THEN acc
    ELSE LoadClasses(Tail(classes), LoadClass(Head(classes), acc))

_load_builtin_rules(acc) == LoadClasses(BUILTIN_RULES, acc)

\* the Rule subclasses among the names dir(module) lists, Rule itself excluded
RECURSIVE RuleSubclasses(_)
RuleSubclasses(bindings) ==
    IF bindings = << >> THEN << >>
    ELSE IF Head(bindings).kind = "rule" THEN <<Head(bindings)>> \o RuleSubclasses(Tail(bindings))
    ELSE RuleSubclasses(Tail(bindings))

\* variant: a unit that is missing or fails to import is skipped
_load_custom_rule_lenient(rule_path, acc) ==
    IF units[rule_path].status # "ok" THEN acc
    ELSE LoadClasses(RuleSubclasses(units[rule_path].names), acc)

_load_custom_rule(rule_path, acc) ==
    IF units[rule_path].status = "missing" THEN [acc EXCEPT !.exc = "FileNotFoundError"]
    ELSE IF units[rule_path].status = "broken" THEN [acc EXCEPT !.exc = "SyntaxError"]
    ELSE LoadClasses(RuleSubclasses(units[rule_path].names), acc)

RECURSIVE LoadCustomRules(_, _)
LoadCustomRules(paths, acc) ==
    IF paths = << >> \/ acc.exc # "" THEN acc
    ELSE LoadCustomRules(Tail(paths), _load_custom_rule(Head(paths), acc))

_load_rules == LoadCustomRules(custom_rules, _load_builtin_rules([rules |-> << >>, exc |-> ""]))

\* ClaudeLinter.__init__(context, config)
NewLinter ==
    /\ pc = "built"
    /\ lpc = "new"
    /\ LET r == _load_rules
       IN /\ lexc' = r.exc
          /\ lpc' = IF r.exc = "" THEN "loaded" ELSE "raised"
          /\ rules' = IF r.exc = "" THEN r.rules ELSE << >>
    /\ UNCHANGED <<ctxVars, config_file, config_rules, custom_rules, units, behaviour,
                   run_state, violations, ran, stderr, args, config_strict,
                   stdout, exit_code>>

\* the list rule.check(context) returns when it returns
Findings(rule, n) == [k \in 1..n |-> Violation(rule.rule_id, rule.severity, k, << >>)]

RunAcc0 == [violations |-> << >>, ran |-> << >>, stderr |-> << >>, exc |-> ""]

\* variant: the call of rule.check is not wrapped in try/except
RunRule_unguarded(rule, acc) ==
    LET b == behaviour[rule.cls]
    IN IF b.raises
       THEN [acc EXCEPT !.ran = Append(@, rule.cls), !.exc = "Exception"]
       ELSE [acc EXCEPT !.ran = Append(@, rule.cls),
                        !.violations = @ \o Findings(rule, b.n)]

\* variant: the violations of a check are put in front of those found so far
RunRule_prepend(rule, acc) ==
    LET b == behaviour[rule.cls]
    IN IF b.raises
       THEN [acc EXCEPT !.ran = Append(@, rule.cls), !.stderr = Append(@, rule.rule_id)]
       ELSE [acc EXCEPT !.ran = Append(@, rule.cls),
                        !.violations = Findings(rule, b.n) \o @]

\* body of the loop of run(): try check + extend, except Exception print
RunRule(rule, acc) ==
    LET b == behaviour[rule.cls]
    IN IF b.raises
       THEN [acc EXCEPT !.ran = Append(@, rule.cls), !.stderr = Append(@, rule.rule_id)]
       ELSE [acc EXCEPT !.ran = Append(@, rule.cls),
                        !.violations = @ \o Findings(rule, b.n)]

RECURSIVE RunRules(_, _)
RunRules(rs, acc) ==
    IF rs = << >> \/ acc.exc # "" THEN acc
    ELSE RunRules(Tail(rs), RunRule(Head(rs), acc))

\* ClaudeLinter.run()
Run ==
    /\ lpc = "loaded"
    /\ LET r == RunRules(rules, RunAcc0)
       IN /\ run_state' = IF r.exc = "" THEN "returned" ELSE "raised"
          /\ violations' = IF r.exc = "" THEN r.violations ELSE << >>
          /\ ran' = r.ran
          /\ stderr' = r.stderr
    /\ UNCHANGED <<ctxVars, config_file, config_rules, custom_rules, units, behaviour,
                   lpc, lexc, rules, args, config_strict, stdout, exit_code>>

\* The caller enables a rule in the configuration object it shares with the
\* orchestrator, after the orchestrator was constructed
EnableRule ==
    /\ lpc = "loaded"
    /\ \E id \in DOMAIN config_rules :
          /\ "enabled" \in DOMAIN config_rules[id]
          /\ config_rules[id]["enabled"] # JBool(TRUE)
          /\ config_rules' = [config_rules EXCEPT ![id] = ("enabled" :> JBool(TRUE)) @@ @]
    /\ UNCHANGED <<ctxVars, config_file, custom_rules, units, behaviour, lpc, lexc, rules,
                   run_state, violations, ran, stderr, args, config_strict,
                   stdout, exit_code>>

(***************************************************************************)
(* LinterConfig.from_file, find_config and main()                          *)
(***************************************************************************)
NoRules == [k \in {} |-> NoConfig]
\* None where a path is expected (args.config not given, find_config found none)
NoPath == <<"-">>
NoArgs == [path |-> Root, config |-> NoPath, verbose |-> FALSE, strict |-> FALSE]

\* what open() + yaml.safe_load raise on the file at p, "" when they succeed
YamlLoadError(p) ==
    LET n == fs[Resolve(p)]
    IN IF n.kind # "file" THEN "IOError"
       ELSE IF n.data.t = "unreadable" THEN "IOError"
       ELSE IF n.data.t = "undecodable" THEN "UnicodeDecodeError"
       ELSE IF n.data.t = "invalid" THEN "YAMLError"
       ELSE ""

\* LinterConfig.from_file(config_path): [exc, rules, custom_rules, strict]
from_file(config_path) ==
    LET e == YamlLoadError(config_path)
        loaded == fs[Resolve(config_path)].data
        data == IF Truthy(loaded) THEN loaded ELSE JObj(NoFields)
        empty == [exc |-> "", rules |-> NoRules, custom_rules |-> << >>, strict |-> JBool(FALSE)]
    IN IF ~Exists(config_path) THEN empty
       ELSE IF e \in {"YAMLError", "IOError"} THEN [empty EXCEPT !.exc = "ValueError"]
       ELSE IF e # "" THEN [empty EXCEPT !.exc = e]
       ELSE IF data.t # "obj" THEN [empty EXCEPT !.exc = "AttributeError"]
       ELSE [exc |-> "",
             rules |-> IF "rules" \in DOMAIN data.f THEN data.f["rules"].m ELSE NoRules,
             custom_rules |-> IF "custom-rules" \in DOMAIN data.f
                              THEN data.f["custom-rules"].items ELSE << >>,
             strict |-> DictGet(data, "strict", JBool(FALSE))]

\* find_config(start_path): walks up from start_path, the top directory
\* itself is not looked at
RECURSIVE find_config(_)
find_config(current) ==
    IF current = << >> THEN NoPath
    ELSE IF Exists(current \o <<".claudelint.yaml">>) THEN current \o <<".claudelint.yaml">>
    ELSE IF Exists(current \o <<".claudelint.yml">>) THEN current \o <<".claudelint.yml">>
    ELSE find_config(SubSeq(current, 1, Len(current) - 1))

\* A caller asks for the configuration file that applies to a directory
FindConfig ==
    /\ ret.op = "none"
    /\ \E start_path \in {p \in DOMAIN fs : fs[p].kind = "dir" /\ p # << >>} :
          ret' = [op |-> "find_config", exc |-> "", start |-> start_path,
                  value |-> find_config(Resolve(start_path))]
    /\ UNCHANGED <<fs, listing, pc, exc, repo_type, marketplace_data, plugin_metadata, plugins, log>>

\* exception classes that `except ValueError` catches
IsValueError(e) == e \in {"ValueError", "UnicodeDecodeError"}

\* main(), "Load config": the configuration is loaded or the process ends
LoadConfig ==
    /\ pc = "built"
    /\ lpc = "start"
    /\ LET explicit == args.config # NoPath
           config_path == IF explicit THEN args.config ELSE find_config(args.path)
           c == IF config_path # NoPath /\ ~(explicit /\ ~Exists(config_path))
                THEN from_file(config_path)
                ELSE [exc |-> "", rules |-> DefaultRules, custom_rules |-> << >>,
                      strict |-> JBool(FALSE)]
           failure == IF explicit /\ ~Exists(config_path) THEN "SystemExit"
                      ELSE IF IsValueError(c.exc) THEN "SystemExit"
                      ELSE c.exc
       IN /\ lexc' = failure
          /\ lpc' = IF failure = "" THEN "new" ELSE "raised"
          /\ stderr' = IF failure = "SystemExit" THEN <<"config">> ELSE << >>
          /\ config_file' = c.rules
          /\ config_rules' = c.rules
          /\ custom_rules' = c.custom_rules
          /\ config_strict' = IF args.strict THEN JBool(TRUE) ELSE c.strict
    /\ UNCHANGED <<ctxVars, units, behaviour, rules, run_state, violations, ran, args, stdout,
                   exit_code>>

(***************************************************************************)
(* A caller that takes LinterConfig.default() and switches its rules off   *)
(***************************************************************************)
\* the keys of LinterConfig.default().rules in the order the dict holds them
DefaultOrder ==
    <<"plugin-json-required", "plugin-json-valid", "plugin-naming", "commands-dir-required",
      "commands-exist", "command-naming", "command-frontmatter", "command-sections",
      "command-name-format", "marketplace-json-valid", "marketplace-registration",
      "plugin-readme", "skill-frontmatter">>

\* config = LinterConfig.default()
DefaultConfig ==
    /\ lpc = "start"
    /\ config_file' = DefaultRules
    /\ config_rules' = DefaultRules
    /\ custom_rules' = << >>
    /\ config_strict' = JBool(FALSE)
    /\ lpc' = "new"
    /\ UNCHANGED <<ctxVars, units, behaviour, lexc, rules, run_state, violations, ran, stderr,
                   args, stdout, exit_code>>

SwitchedOff(k) == \A j \in 1..k : config_rules[DefaultOrder[j]]["enabled"] = JBool(FALSE)

\* one turn of `for rule_id in config.rules: config.rules[rule_id]["enabled"] = False`
DisableRule ==
    /\ lpc = "new"
    /\ \E k \in 1..Len(DefaultOrder) :
          /\ SwitchedOff(k - 1)
          /\ ~SwitchedOff(k)
          /\ config_rules' = [config_rules EXCEPT ![DefaultOrder[k]] =
                                 ("enabled" :> JBool(FALSE)) @@ @]
    /\ UNCHANGED <<ctxVars, config_file, custom_rules, units, behaviour, lpc, lexc, rules,
                   run_state, violations, ran, stderr, args, config_strict,
                   stdout, exit_code>>

(***************************************************************************)
(* get_counts, format_results and the end of main()                        *)
(***************************************************************************)
WithSeverity(vs, severity) == SelectSeq(vs, LAMBDA v : v.severity = severity)

\* ClaudeLinter.get_counts(violations): <<errors, warnings, info>>
get_counts(vs) ==
    <<Len(WithSeverity(vs, "error")), Len(WithSeverity(vs, "warning")),
      Len(WithSeverity(vs, "info"))>>

\* RuleViolation.__str__: severity (icon and upper-case word), location, message
Str(v) == [severity |-> v.severity, file_path |-> v.file_path, message |-> v.message]
NoText == [severity |-> "", file_path |-> << >>, message |-> 0]
\* one line of the report: a heading, a formatted violation or a count
Line(text, n, v) == [text |-> text, n |-> n, v |-> v]
Section(heading, vs) ==
    IF vs = << >> THEN << >>
    ELSE <<Line(heading, 0, NoText)>> \o [k \in 1..Len(vs) |-> Line("violation", 0, Str(vs[k]))]

\* ClaudeLinter.format_results(violations, verbose): the lines joined by "\n"
format_results(vs, verbose) ==
    LET counts == get_counts(vs)
    IN Section("Errors:", WithSeverity(vs, "error"))
       \o Section("Warnings:", WithSeverity(vs, "warning"))
       \o (IF verbose THEN Section("Info:", WithSeverity(vs, "info")) ELSE << >>)
       \o <<Line("Summary:", 0, NoText), Line("Errors", counts[1], NoText),
            Line("Warnings", counts[2], NoText)>>
       \o (IF verbose THEN <<Line("Info", counts[3], NoText)>> ELSE << >>)
       \o (IF counts[1] = 0 /\ counts[2] = 0
           THEN <<Line("All checks passed!", 0, NoText)>> ELSE << >>)

\* variant: the strict setting is not consulted
ExitStatus_lenient(counts, strict) == IF counts[1] > 0 THEN 1 ELSE 0

\* main(), "Exit with appropriate code"
ExitStatus(counts, strict) ==
    IF counts[1] > 0 THEN 1
    ELSE IF Truthy(strict) /\ counts[2] > 0 THEN 1
    ELSE 0

\* main() after run(): print the report, exit
ReportAndExit ==
    /\ lpc = "loaded"
    /\ run_state = "returned"
    /\ exit_code = -1
    /\ stdout' = format_results(violations, args.verbose)
    /\ exit_code' = ExitStatus(get_counts(violations), config_strict)
    /\ UNCHANGED <<ctxVars, config_file, config_rules, custom_rules, units, behaviour, lpc, lexc,
                   rules, run_state, violations, ran, stderr, args, config_strict>>

(***************************************************************************)
(* Repositories explored: a root with an optional .claude-plugin marker,   *)
(* manifest or registry, an optional plugins container holding a real      *)
(* directory a, a symlink b, a hidden directory .h and a regular file f,   *)
(* a directory d with agents/, a directory e with a manifest, a symlink    *)
(* lnk leaving the root, and a directory outside the root.                 *)
(***************************************************************************)
Absent == [t |-> "absent"]

Field(key, v) == IF v = Absent THEN NoFields ELSE (key :> v)
Entry(name, source, strict) ==
    JObj(Field("name", name) @@ Field("source", source) @@ Field("strict", strict))

N1 == JStr(<<"n1">>)
N2 == JStr(<<"n2">>)
Remote == JObj(("source" :> JStr(<<"github">>)) @@ ("repo" :> JStr(<<"owner", "repo">>)))

EntrySet ==
    {Entry(N1, JStr(<<".", "plugins", "a">>), st) : st \in {Absent, JBool(FALSE)}}
    \cup {Entry(N1, JStr(<<".", "d">>), st) : st \in {Absent, JBool(FALSE), JNull}}
    \cup {Entry(N2, JStr(s), JBool(FALSE)) :
             s \in {<<".">>, <<"..", "out">>, <<".", "lnk">>, <<".", "e">>}}
    \cup {Entry(N2, Remote, Absent), Entry(Absent, JStr(<<".", "d">>), JBool(FALSE)), JNum(5)}

BoundedSeq(S, n) == UNION {[1..k -> S] : k \in 0..n}

RegistryDocs ==
    {[t |-> "unreadable"], [t |-> "undecodable"], [t |-> "invalid"],
     JNull, JNum(5), JList(<< >>), JList(<<JStr(<<"plugins">>)>>), JStr(<<"plugins">>),
     JObj("name" :> N1), JObj("plugins" :> JNull), JObj("plugins" :> JNum(5))}
    \cup {JObj(("name" :> N1) @@ ("plugins" :> JList(s))) : s \in BoundedSeq(EntrySet, MaxEntries)}

ManifestDocs ==
    {[t |-> "invalid"], JList(<<JNum(1)>>), JObj("name" :> JStr(<<"m1">>)),
     JObj("version" :> JStr(<<"1.0.0">>))}

\* a directory p holding the entries named in c
DirTree(p, c, doc) ==
    (p :> DirNode)
    @@ (IF "marker" \in c THEN ManifestDir(p) :> DirNode ELSE NoFields)
    @@ (IF "manifest" \in c THEN ManifestFile(p) :> FileNode(doc) ELSE NoFields)
    @@ [q \in {p \o <<x>> : x \in c \cap {"commands", "agents", "skills", "hooks"}} |-> DirNode]

ItemContents == {{}, {"commands"}, {"marker"}, {"marker", "manifest"}}

\* the plugins container with the order iterdir lists it in
Container(c, bt, order) ==
    [tree |-> (PluginsDir :> DirNode)
              @@ DirTree(PluginsDir \o <<"a">>, c, JObj("name" :> JStr(<<"ma">>)))
              @@ (PluginsDir \o <<"b">> :> LinkNode(bt))
              @@ DirTree(PluginsDir \o <<".h">>, {"commands"}, JNull)
              @@ (PluginsDir \o <<"f">> :> FileNode(JNull)),
     listing |-> order]

ContainerLayouts ==
    {Container(c, PluginsDir \o <<"a">>, <<"a", "b", ".h", "f">>) : c \in ItemContents}
    \cup {Container({"commands"}, PluginsDir \o <<"a">>, <<"f", ".h", "b", "a">>),
          Container({"marker"}, Outside, <<"a", "b", ".h", "f">>)}
    \cup {[tree |-> NoFields, listing |-> << >>],
          [tree |-> (PluginsDir :> FileNode(JNull)), listing |-> << >>]}

RootTrees ==
    {(Root :> DirNode), DirTree(Root, {"marker"}, JNull)}
    \cup {DirTree(Root, {"marker", "manifest"}, doc) : doc \in ManifestDocs}
    \cup {DirTree(Root, {"marker"}, JNull) @@ (RegistryFile :> FileNode(doc)) : doc \in RegistryDocs}

FixedTree ==
    DirTree(Root \o <<"d">>, {"agents"}, JNull)
    @@ DirTree(Root \o <<"e">>, {"marker", "manifest"}, JObj("name" :> JStr(<<"me">>)))
    @@ (Root \o <<"lnk">> :> LinkNode(Outside))
    @@ DirTree(Outside, {"marker", "manifest"}, JObj("name" :> JStr(<<"mo">>)))

CtxInit ==
    /\ \E rt \in RootTrees, cl \in ContainerLayouts :
          /\ fs = rt @@ cl.tree @@ FixedTree
          /\ listing = cl.listing
    /\ pc = "new"
    /\ exc = ""
    /\ repo_type = "unset"
    /\ marketplace_data = JNull
    /\ plugin_metadata = << >>
    /\ plugins = << >>
    /\ log = << >>
    /\ ret = [op |-> "none", exc |-> ""]

Quiet == [raises |-> FALSE, n |-> 0]
AllClassNames ==
    {BUILTIN_RULES[i].cls : i \in 1..Len(BUILTIN_RULES)}
    \cup {"ExtAttrRule", "ExtPropRule", "ZedRule"}

LintIdle ==
    /\ config_file = DefaultRules
    /\ config_rules = DefaultRules
    /\ custom_rules = << >>
    /\ units = << >>
    /\ behaviour = [c \in AllClassNames |-> Quiet]
    /\ lpc = "new"
    /\ lexc = ""
    /\ rules = << >>
    /\ run_state = "idle"
    /\ violations = << >>
    /\ ran = << >>
    /\ stderr = << >>
    /\ args = NoArgs
    /\ config_strict = JBool(FALSE)
    /\ stdout = << >>
    /\ exit_code = -1

Init == CtxInit /\ LintIdle

Next ==
    \/ Construct /\ UNCHANGED lintVars
    \/ GetPluginName /\ UNCHANGED lintVars
    \/ GetPluginMetadata /\ UNCHANGED lintVars
    \/ CheckPluginJsonRequired /\ UNCHANGED lintVars
    \/ IsRegisteredInMarketplace /\ UNCHANGED lintVars

\* repository construction and the queries made on the constructed context
Spec == Init /\ [][Next]_vars

TwiceNext ==
    \/ Construct /\ UNCHANGED lintVars
    \/ ConstructAgain /\ UNCHANGED lintVars

\* two constructions from the same, unmodified root
SpecTwice == Init /\ [][TwiceNext]_vars

(***************************************************************************)
(* Repositories whose files change while a context is in use: a registry   *)
(* listing the directories d and e, and a manifest that is written into d  *)
(* after the context was constructed and before it is queried.             *)
(***************************************************************************)
EnvEntries ==
    {e \in EntrySet : e.t = "obj" /\ e.f["source"] \in {JStr(<<".", "d">>), JStr(<<".", "e">>)}}

EnvRegistryDocs ==
    {JObj(("name" :> N1) @@ ("plugins" :> JList(s))) : s \in BoundedSeq(EnvEntries, MaxEntries)}

EnvInit ==
    /\ \E doc \in EnvRegistryDocs :
          fs = DirTree(Root, {"marker"}, JNull) @@ (RegistryFile :> FileNode(doc)) @@ FixedTree
    /\ listing = << >>
    /\ pc = "new"
    /\ exc = ""
    /\ repo_type = "unset"
    /\ marketplace_data = JNull
    /\ plugin_metadata = << >>
    /\ plugins = << >>
    /\ log = << >>
    /\ ret = [op |-> "none", exc |-> ""]
    /\ LintIdle

\* Some other process writes d/.claude-plugin/plugin.json
WriteManifest ==
    /\ pc = "built"
    /\ ret.op = "none"
    /\ ~Exists(ManifestDir(Root \o <<"d">>))
    /\ \E doc \in ManifestDocs :
          fs' = DirTree(Root \o <<"d">>, {"marker", "manifest"}, doc) @@ fs
    /\ UNCHANGED <<listing, pc, exc, repo_type, marketplace_data, plugin_metadata, plugins, log, ret>>

EnvNext ==
    \/ Construct /\ UNCHANGED lintVars
    \/ WriteManifest /\ UNCHANGED lintVars
    \/ GetPluginName /\ UNCHANGED lintVars
    \/ GetPluginMetadata /\ UNCHANGED lintVars

\* construction, a later manifest write by the environment, then queries
SpecEnv == EnvInit /\ [][EnvNext]_vars

(***************************************************************************)
(* Marketplaces for the registration check: the container holds a (with    *)
(* commands or with a manifest of any content) and b (commands only), d    *)
(* holds agents, m holds an empty .claude-plugin directory; the container  *)
(* also holds a hidden directory, a directory with agents only and a file, *)
(* and a second container extras holds x (commands); the registry lists up *)
(* to MaxEntries entries for plugins/a, d or m.                            *)
(***************************************************************************)
RegEntries ==
    {JObj(Entry(JStr(<<n>>), JStr(src), st).f @@ ("version" :> JStr(<<"9">>))) :
        n \in {"a", "m1", "n1"},
        src \in {<<".", "plugins", "a">>, <<".", "d">>},
        st \in {Absent, JBool(FALSE)}}
    \cup {Entry(N1, JStr(<<".", "m">>), st) : st \in {Absent, JBool(FALSE)}}

RegInit ==
    /\ \E s \in BoundedSeq(RegEntries, MaxEntries),
          c \in {[c |-> {"commands"}, doc |-> JNull]}
                \cup {[c |-> {"marker", "manifest"}, doc |-> doc] : doc \in ManifestDocs} :
          fs = DirTree(Root, {"marker"}, JNull)
               @@ (RegistryFile :> FileNode(JObj(("name" :> N1) @@ ("plugins" :> JList(s)))))
               @@ (PluginsDir :> DirNode)
               @@ DirTree(PluginsDir \o <<"a">>, c.c, c.doc)
               @@ DirTree(PluginsDir \o <<"b">>, {"commands"}, JNull)
               @@ DirTree(Root \o <<"d">>, {"agents"}, JNull)
               @@ DirTree(Root \o <<"m">>, {"marker"}, JNull)
               @@ DirTree(PluginsDir \o <<".h">>, {"commands"}, JNull)
               @@ DirTree(PluginsDir \o <<"n">>, {"agents"}, JNull)
               @@ (PluginsDir \o <<"f">> :> FileNode(JNull))
               @@ (Root \o <<"extras">> :> DirNode)
               @@ DirTree(Root \o <<"extras", "x">>, {"commands"}, JNull)
    /\ listing = <<"a", ".h", "n", "f", "b">>
    /\ pc = "new"
    /\ exc = ""
    /\ repo_type = "unset"
    /\ marketplace_data = JNull
    /\ plugin_metadata = << >>
    /\ plugins = << >>
    /\ log = << >>
    /\ ret = [op |-> "none", exc |-> ""]
    /\ LintIdle

RegNext ==
    \/ Construct /\ UNCHANGED lintVars
    \/ CheckMarketplaceRegistration /\ UNCHANGED lintVars
    \/ GetPluginMetadata /\ UNCHANGED lintVars

\* construction of a marketplace, then the registration check and metadata queries
SpecReg == RegInit /\ [][RegNext]_vars

(***************************************************************************)
(* Orchestrator runs explored: the default configuration with one rule's   *)
(* entry replaced, one external unit ext.py that defines ExtAttrRule       *)
(* (rule_id a class attribute) and ExtPropRule (rule_id a property) and    *)
(* imports Rule and Severity, and a repository of each kind.               *)
(***************************************************************************)
ExtUnit ==
    << RuleClass("ExtAttrRule", "ext-attr", "attribute", "error"),
       RuleClass("ExtPropRule", "ext-prop", "property", "error"),
       BaseRule,
       NotARule("Severity") >>

Outcomes == {[raises |-> TRUE, n |-> 0]} \cup {[raises |-> FALSE, n |-> k] : k \in 0..MaxViolations}

ConfiguredIds == {"plugin-json-required", "ext-attr", "ext-prop"}

Configs ==
    {(id :> (("enabled" :> en) @@ sev)) @@ DefaultRules :
        id \in ConfiguredIds, en \in {JBool(TRUE), JBool(FALSE), Auto},
        sev \in {NoConfig, "severity" :> "warning", "severity" :> "bogus"}}

LintInit ==
    /\ fs = (Root :> DirNode)
    /\ listing = << >>
    /\ pc = "built"
    /\ exc = ""
    /\ repo_type \in {"single-plugin", "marketplace", "unknown"}
    /\ marketplace_data = JNull
    /\ plugin_metadata = << >>
    /\ plugins = << >>
    /\ log = << >>
    /\ ret = [op |-> "none", exc |-> ""]
    /\ config_file \in Configs
    /\ config_rules = config_file
    /\ custom_rules = <<"ext.py">>
    /\ \/ /\ units = ("ext.py" :> [status |-> "ok", names |-> ExtUnit])
          /\ \E b1, b2 \in Outcomes :
                behaviour = [c \in AllClassNames |->
                               IF c = "PluginJsonRequiredRule" THEN b1
                               ELSE IF c = "ExtAttrRule" THEN b2
                               ELSE IF c = "ExtPropRule" THEN [raises |-> FALSE, n |-> 1]
                               ELSE Quiet]
       \/ /\ units \in {("ext.py" :> [status |-> st, names |-> << >>]) : st \in {"missing", "broken"}}
          /\ behaviour = [c \in AllClassNames |-> Quiet]
    /\ lpc = "new"
    /\ lexc = ""
    /\ rules = << >>
    /\ run_state = "idle"
    /\ violations = << >>
    /\ ran = << >>
    /\ stderr = << >>
    /\ args = NoArgs
    /\ config_strict = JBool(FALSE)
    /\ stdout = << >>
    /\ exit_code = -1

LintNext ==
    \/ NewLinter
    \/ Run
    \/ EnableRule

\* orchestrator construction, runs and later configuration changes
SpecLint == LintInit /\ [][LintNext]_vars

(***************************************************************************)
(* Orchestrators with two external units: ext.py as above and ext2.py,     *)
(* which defines ZedRule, binds it a second time as Alias, and imports     *)
(* PluginNamingRule, Rule and Severity.  names is in the order of dir().   *)
(***************************************************************************)
ZedRule == RuleClass("ZedRule", "zed", "attribute", "warning")
ExtUnit2 == << ZedRule, BUILTIN_RULES[3], BaseRule, NotARule("Severity"), ZedRule >>

UnitsInit ==
    /\ fs = (Root :> DirNode)
    /\ listing = << >>
    /\ pc = "built"
    /\ exc = ""
    /\ repo_type \in {"single-plugin", "marketplace", "unknown"}
    /\ marketplace_data = JNull
    /\ plugin_metadata = << >>
    /\ plugins = << >>
    /\ log = << >>
    /\ ret = [op |-> "none", exc |-> ""]
    /\ args = NoArgs
    /\ config_strict = JBool(FALSE)
    /\ stdout = << >>
    /\ exit_code = -1
    /\ config_file \in {DefaultRules, ("ext-attr" :> RuleCfg(JBool(FALSE), "info")) @@ DefaultRules}
    /\ config_rules = config_file
    /\ custom_rules \in {<<"ext.py">>, <<"ext2.py">>, <<"ext.py", "ext2.py">>, <<"ext2.py", "ext.py">>,
                         <<"ext.py", "ext.py">>}
    /\ units = ("ext.py" :> [status |-> "ok", names |-> ExtUnit])
               @@ ("ext2.py" :> [status |-> "ok", names |-> ExtUnit2])
    /\ \E b1, b2, b3 \in Outcomes :
          behaviour = [c \in AllClassNames |->
                         IF c = "PluginJsonRequiredRule" THEN b1
                         ELSE IF c = "ExtAttrRule" THEN b2
                         ELSE IF c = "ZedRule" THEN b3
                         ELSE IF c = "ExtPropRule" THEN [raises |-> FALSE, n |-> 1]
                         ELSE Quiet]
    /\ lpc = "new"
    /\ lexc = ""
    /\ rules = << >>
    /\ run_state = "idle"
    /\ violations = << >>
    /\ ran = << >>
    /\ stderr = << >>

UnitsNext ==
    \/ NewLinter
    \/ Run

\* orchestrators built from one or two external units, then run
SpecUnits == UnitsInit /\ [][UnitsNext]_vars

(***************************************************************************)
(* Configurations whose entry for plugin-json-required has no enabled      *)
(* value or one of the values YAML can produce, asked about each kind of   *)
(* repository.                                                             *)
(***************************************************************************)
EnabledValues ==
    {JBool(TRUE), JBool(FALSE), Auto, JStr(<<"AUTO">>), JStr(<<"false">>), JStr(<< >>),
     JNum(0), JNum(1), JNull, JList(<< >>)}

EnabledConfigs ==
    {DefaultRules, ("plugin-json-required" :> ("severity" :> "error")) @@ DefaultRules}
    \cup {("plugin-json-required" :> RuleCfg(en, "error")) @@ DefaultRules : en \in EnabledValues}

EnabledInit ==
    /\ fs = (Root :> DirNode)
    /\ listing = << >>
    /\ pc = "built"
    /\ exc = ""
    /\ repo_type \in {"single-plugin", "marketplace", "unknown"}
    /\ marketplace_data = JNull
    /\ plugin_metadata = << >>
    /\ plugins = << >>
    /\ log = << >>
    /\ ret = [op |-> "none", exc |-> ""]
    /\ args = NoArgs
    /\ config_strict = JBool(FALSE)
    /\ stdout = << >>
    /\ exit_code = -1
    /\ config_file \in EnabledConfigs
    /\ config_rules = config_file
    /\ custom_rules = <<"ext.py">>
    /\ units = ("ext.py" :> [status |-> "ok", names |-> ExtUnit])
    /\ behaviour = [c \in AllClassNames |-> Quiet]
    /\ lpc = "new"
    /\ lexc = ""
    /\ rules = << >>
    /\ run_state = "idle"
    /\ violations = << >>
    /\ ran = << >>
    /\ stderr = << >>

EnabledNext ==
    \/ IsRuleEnabled /\ UNCHANGED lintVars
    \/ NewLinter

\* enabled-state queries and the load that relies on them
SpecEnabled == EnabledInit /\ [][EnabledNext]_vars

(***************************************************************************)
(* Invocations of main() explored: --config c.yaml or no --config, a       *)
(* repository r or r/d to lint, configuration files c.yaml,                *)
(* r/.claudelint.yaml and r/.claudelint.yml that are absent, unparseable   *)
(* or name the external units ext.py (loads), gone.py (missing) and bad.py *)
(* (syntax error).                                                         *)
(***************************************************************************)
ConfigArg == <<"c.yaml">>
YamlRules(m) == [t |-> "rules", m |-> m]
YamlPaths(s) == [t |-> "paths", items |-> s]

ConfigDocs ==
    {[t |-> "invalid"], [t |-> "unreadable"], [t |-> "undecodable"],
     JNull, JList(<<JNum(1)>>), JObj(NoFields),
     JObj("rules" :> YamlRules(("plugin-json-required" :> RuleCfg(JBool(FALSE), "error"))))}
    \cup {JObj("custom-rules" :> YamlPaths(s)) :
            s \in {<<"ext.py">>, <<"gone.py">>, <<"bad.py">>, <<"ext.py", "gone.py">>}}

FileOrNone(p, docs) == {NoFields} \cup {(p :> FileNode(doc)) : doc \in docs}

MainUnits ==
    ("ext.py" :> [status |-> "ok", names |-> ExtUnit])
    @@ ("gone.py" :> [status |-> "missing", names |-> << >>])
    @@ ("bad.py" :> [status |-> "broken", names |-> << >>])

MainInit ==
    /\ \E c \in FileOrNone(ConfigArg, ConfigDocs),
          y \in FileOrNone(Root \o <<".claudelint.yaml">>,
                           {[t |-> "invalid"], JObj("custom-rules" :> YamlPaths(<<"bad.py">>))}),
          z \in FileOrNone(Root \o <<".claudelint.yml">>, {JObj(NoFields)}) :
          fs = (Root :> DirNode) @@ (Root \o <<"d">> :> DirNode) @@ c @@ y @@ z
    /\ listing = << >>
    /\ pc = "built"
    /\ exc = ""
    /\ repo_type \in {"single-plugin", "marketplace"}
    /\ marketplace_data = JNull
    /\ plugin_metadata = << >>
    /\ plugins = << >>
    /\ log = << >>
    /\ ret = [op |-> "none", exc |-> ""]
    /\ args \in [path : {Root, Root \o <<"d">>}, config : {NoPath, ConfigArg},
                 verbose : {FALSE}, strict : {FALSE}]
    /\ config_strict = JBool(FALSE)
    /\ stdout = << >>
    /\ exit_code = -1
    /\ config_file = NoRules
    /\ config_rules = NoRules
    /\ custom_rules = << >>
    /\ units = MainUnits
    /\ \E b \in Outcomes :
          behaviour = [c \in AllClassNames |-> IF c = "PluginJsonRequiredRule" THEN b ELSE Quiet]
    /\ lpc = "start"
    /\ lexc = ""
    /\ rules = << >>
    /\ run_state = "idle"
    /\ violations = << >>
    /\ ran = << >>
    /\ stderr = << >>

MainNext ==
    \/ LoadConfig
    \/ NewLinter
    \/ Run

\* one invocation of main(): load the configuration, build the orchestrator, run
SpecMain == MainInit /\ [][MainNext]_vars

(***************************************************************************)
(* Completed invocations of main(): --config c.yaml names the unit ext.py  *)
(* and gives ext-attr a severity; --strict, --verbose and the file's       *)
(* strict key vary; an error check, a warning check and ext-attr return    *)
(* violations or none.                                                     *)
(***************************************************************************)
ExitConfigDocs ==
    {JObj(("custom-rules" :> YamlPaths(<<"ext.py">>))
          @@ ("rules" :> YamlRules("ext-attr" :> ("severity" :> sev)))
          @@ st) :
        sev \in Severities, st \in {NoFields, "strict" :> JBool(TRUE)}}

ExitInit ==
    /\ \E doc \in ExitConfigDocs : fs = (Root :> DirNode) @@ (ConfigArg :> FileNode(doc))
    /\ listing = << >>
    /\ pc = "built"
    /\ exc = ""
    /\ repo_type = "marketplace"
    /\ marketplace_data = JNull
    /\ plugin_metadata = << >>
    /\ plugins = << >>
    /\ log = << >>
    /\ ret = [op |-> "none", exc |-> ""]
    /\ args \in [path : {Root}, config : {ConfigArg}, verbose : BOOLEAN, strict : BOOLEAN]
    /\ config_strict = JBool(FALSE)
    /\ stdout = << >>
    /\ exit_code = -1
    /\ config_file = NoRules
    /\ config_rules = NoRules
    /\ custom_rules = << >>
    /\ units = MainUnits
    /\ \E b1 \in Outcomes, b2, b3 \in {Quiet, [raises |-> FALSE, n |-> 1]} :
          behaviour = [c \in AllClassNames |->
                         IF c = "PluginJsonRequiredRule" THEN b1
                         ELSE IF c = "PluginNamingRule" THEN b2
                         ELSE IF c = "ExtAttrRule" THEN b3
                         ELSE Quiet]
    /\ lpc = "start"
    /\ lexc = ""
    /\ rules = << >>
    /\ run_state = "idle"
    /\ violations = << >>
    /\ ran = << >>
    /\ stderr = << >>

ExitNext ==
    \/ LoadConfig
    \/ NewLinter
    \/ Run
    \/ ReportAndExit

\* main() from the command line to the exit status
SpecExit == ExitInit /\ [][ExitNext]_vars

(***************************************************************************)
(* Orchestrators built from the default configuration, as it is or with    *)
(* its leading rules switched off, for every repository type.              *)
(***************************************************************************)
DefaultInit ==
    /\ fs = (Root :> DirNode)
    /\ listing = << >>
    /\ pc = "built"
    /\ exc = ""
    /\ repo_type \in {"single-plugin", "marketplace", "unknown"}
    /\ marketplace_data = JNull
    /\ plugin_metadata = << >>
    /\ plugins = << >>
    /\ log = << >>
    /\ ret = [op |-> "none", exc |-> ""]
    /\ config_file = NoRules
    /\ config_rules = NoRules
    /\ custom_rules = << >>
    /\ units = MainUnits
    /\ \E b1, b2 \in {Quiet, [raises |-> FALSE, n |-> 1]} :
          behaviour = [c \in AllClassNames |->
                         IF c = "PluginJsonRequiredRule" THEN b1
                         ELSE IF c = "AgentFrontmatterRule" THEN b2
                         ELSE Quiet]
    /\ lpc = "start"
    /\ lexc = ""
    /\ rules = << >>
    /\ run_state = "idle"
    /\ violations = << >>
    /\ ran = << >>
    /\ stderr = << >>
    /\ args = NoArgs
    /\ config_strict = JBool(FALSE)
    /\ stdout = << >>
    /\ exit_code = -1

DefaultNext ==
    \/ DefaultConfig
    \/ DisableRule
    \/ NewLinter
    \/ Run

SpecDefault == DefaultInit /\ [][DefaultNext]_vars

(***************************************************************************)
(* Directory chains for find_config: the filesystem root, r and r/d, each  *)
(* with or without .claudelint.yaml and .claudelint.yml.                   *)
(***************************************************************************)
ConfigNames == {<<".claudelint.yaml">>, <<".claudelint.yml">>}
Chain == {<< >>, Root, Root \o <<"d">>}

FindInit ==
    /\ \E present \in SUBSET {dir \o n : dir \in Chain, n \in ConfigNames} :
          fs = [p \in Chain |-> DirNode] @@ [p \in present |-> FileNode(JNull)]
    /\ listing = << >>
    /\ pc = "new"
    /\ exc = ""
    /\ repo_type = "unset"
    /\ marketplace_data = JNull
    /\ plugin_metadata = << >>
    /\ plugins = << >>
    /\ log = << >>
    /\ ret = [op |-> "none", exc |-> ""]
    /\ LintIdle

FindNext == FindConfig /\ UNCHANGED lintVars

\* configuration discovery from every directory of the chain
SpecFind == FindInit /\ [][FindNext]_vars

(***************************************************************************)
(* Facts about the explored repository, read off the file system directly  *)
(***************************************************************************)
RegistryPresent == RegistryFile \in DOMAIN fs
MarkerPresent == ManifestDir(Root) \in DOMAIN fs
ContainerPresent == PluginsDir \in DOMAIN fs
ContainerIsFile == ContainerPresent /\ fs[PluginsDir].kind = "file"

Range(q) == {q[i] : i \in 1..Len(q)}
InsideRoot(p) == Len(p) >= 1 /\ p[1] = "r"

\* the registry's plugin list as the file holds it, << >> when it has none
RegistryEntries ==
    LET doc == fs[RegistryFile].data
    IN IF RegistryPresent /\ doc.t = "obj" /\ "plugins" \in DOMAIN doc.f
          /\ doc.f["plugins"].t = "list"
       THEN doc.f["plugins"].items
       ELSE << >>

\* entry e names, by a plain string, a location outside the repository root
Escapes(e) ==
    /\ e.t = "obj" /\ "source" \in DOMAIN e.f /\ e.f["source"].t = "str"
    /\ e.f["source"].parts # << >>
    /\ ~InsideRoot(Resolve(Root \o e.f["source"].parts))

\* entry e names, by a plain string, an existing directory inside the root
LocalDir(e) ==
    /\ e.t = "obj" /\ "source" \in DOMAIN e.f /\ e.f["source"].t = "str"
    /\ e.f["source"].parts # << >>
    /\ InsideRoot(Resolve(Root \o e.f["source"].parts))
    /\ Resolve(Root \o e.f["source"].parts) \in DOMAIN fs
    /\ fs[Resolve(Root \o e.f["source"].parts)].kind = "dir"

EntryDir(e) == Resolve(Root \o e.f["source"].parts)
Relaxed(e) == "strict" \in DOMAIN e.f /\ e.f["strict"] = JBool(FALSE)
HasManifest(dir) == ManifestFile(dir) \in DOMAIN fs

(***************************************************************************)
(* C1: the kind is Marketplace whenever the registry file exists;          *)
(* otherwise SinglePlugin whenever the root has a .claude-plugin marker;   *)
(* otherwise Marketplace when a plugins container exists; otherwise        *)
(* Unknown.                                                                *)
(***************************************************************************)
C1_ClassificationPriority ==
    pc # "new" =>
        /\ RegistryPresent => repo_type = "marketplace"
        /\ (~RegistryPresent /\ MarkerPresent) => repo_type = "single-plugin"
        /\ (~RegistryPresent /\ ~MarkerPresent /\ ContainerPresent) => repo_type = "marketplace"
        /\ (~RegistryPresent /\ ~MarkerPresent /\ ~ContainerPresent) => repo_type = "unknown"

\* a root marker and a plugins container together, without a registry
C1_Witness ==
    /\ pc = "built" /\ repo_type = "single-plugin"
    /\ MarkerPresent /\ ContainerPresent /\ ~RegistryPresent

(***************************************************************************)
(* C2: after construction every path in plugins resolves to a location     *)
(* inside the repository root, whatever the registry sources and the       *)
(* entries of the plugins container (symlinks included).                   *)
(***************************************************************************)
C2_NoPluginOutsideRoot ==
    pc = "built" => \A i \in 1..Len(plugins) : InsideRoot(Resolve(plugins[i]))

(***************************************************************************)
(* C5: every relaxed-validation registry entry whose source is an existing *)
(* directory inside the root without a manifest file is retained as        *)
(* fallback metadata under the resolved path, get_plugin_name returns the  *)
(* entry's name and plugin-json-required reports nothing for the plugin,   *)
(* also when the container scan found the directory first.                 *)
(***************************************************************************)
C5_RelaxedEntryRetained ==
    pc = "built" =>
        \A i \in 1..Len(RegistryEntries) :
            LET e == RegistryEntries[i]
            IN (LocalDir(e) /\ Relaxed(e) /\ ~HasManifest(EntryDir(e))) =>
                  /\ EntryDir(e) \in DOMAIN plugin_metadata
                  /\ plugin_metadata[EntryDir(e)] = e
                  /\ \E p \in Range(plugins) :
                        /\ Resolve(p) = EntryDir(e)
                        /\ "name" \in DOMAIN e.f => get_plugin_name(p).value = e.f["name"]
                        /\ \A v \in Range(PluginJsonRequiredRule_check("error")) :
                              v.file_path # ManifestFile(p)

(***************************************************************************)
(* C7: whatever the registry file and the manifest files hold, the         *)
(* constructor, get_plugin_name and get_plugin_metadata return without     *)
(* raising.                                                                *)
(***************************************************************************)
C7_NeverRaises ==
    ~ContainerIsFile => (pc # "raised" /\ ret.exc = "")

(***************************************************************************)
(* C8: a registry entry whose plain-string source resolves outside the     *)
(* root contributes no plugin, is answered by exactly one warning and by   *)
(* no exception, and the entries after it are still processed.             *)
(***************************************************************************)
Warnings == {k \in 1..Len(log) : log[k].level = "warning"}
EscapingEntries == {i \in 1..Len(RegistryEntries) : Escapes(RegistryEntries[i])}
AllObjects(entries) == \A i \in 1..Len(entries) : entries[i].t = "obj"

C8_EscapingSourceSkipped ==
    /\ (pc # "new" /\ EscapingEntries # {} /\ AllObjects(RegistryEntries) /\ ~ContainerIsFile)
          => pc = "built"
    /\ pc = "built" =>
          /\ Cardinality(Warnings) = Cardinality(EscapingEntries)
          /\ \A i \in EscapingEntries :
                LET e == RegistryEntries[i]
                IN /\ EntryDir(e) \notin Range(plugins)
                   /\ EntryDir(e) \notin DOMAIN plugin_metadata
                   /\ \E k \in Warnings :
                         log[k] = LogRec("warning", "escapes repository root",
                                         DictGet(e, "name", JStr(<<"unknown">>)))
          /\ EscapingEntries # {} =>
                \A j \in 1..Len(RegistryEntries) :
                    LET e == RegistryEntries[j]
                    IN (LocalDir(e) /\ Relaxed(e)) =>
                          EntryDir(e) \in {Resolve(p) : p \in Range(plugins)}

\* an escaping entry followed by a local relaxed entry that was discovered
C8_Witness ==
    /\ pc = "built"
    /\ \E i, j \in 1..Len(RegistryEntries) :
          /\ i < j
          /\ Escapes(RegistryEntries[i])
          /\ LocalDir(RegistryEntries[j]) /\ Relaxed(RegistryEntries[j])
          /\ EntryDir(RegistryEntries[j]) \in Range(plugins)
    /\ Cardinality(Warnings) = 1

(***************************************************************************)
(* C9: no two elements of plugins share a resolved path, and the first     *)
(* discovery of a path is the one kept.                                    *)
(***************************************************************************)
\* the container item called name passes the container scan's tests
Qualifies(name) ==
    LET item == PluginsDir \o <<name>>
        dir == IF item \in DOMAIN fs /\ fs[item].kind = "link" THEN fs[item].target ELSE item
    IN /\ name \notin {".h"}
       /\ dir \in DOMAIN fs /\ fs[dir].kind = "dir"
       /\ (ManifestDir(dir) \in DOMAIN fs \/ dir \o <<"commands">> \in DOMAIN fs)

ItemDir(name) ==
    LET item == PluginsDir \o <<name>>
    IN IF item \in DOMAIN fs /\ fs[item].kind = "link" THEN fs[item].target ELSE item

C9_UniqueResolvedPaths ==
    pc = "built" =>
        /\ \A i, j \in 1..Len(plugins) : i # j => Resolve(plugins[i]) # Resolve(plugins[j])
        /\ repo_type = "marketplace" =>
              \A i, j \in 1..Len(listing) :
                  (i < j /\ Qualifies(listing[i]) /\ Qualifies(listing[j])
                     /\ ItemDir(listing[i]) = ItemDir(listing[j])) =>
                        /\ PluginsDir \o <<listing[i]>> \in Range(plugins)
                        /\ PluginsDir \o <<listing[j]>> \notin Range(plugins)
        /\ \A dir \in DOMAIN plugin_metadata :
              \E j \in 1..Len(RegistryEntries) :
                  /\ RegistryEntries[j] = plugin_metadata[dir]
                  /\ LocalDir(RegistryEntries[j]) /\ EntryDir(RegistryEntries[j]) = dir
                  /\ \A i \in 1..(j - 1) :
                        ~(LocalDir(RegistryEntries[i]) /\ EntryDir(RegistryEntries[i]) = dir
                            /\ Relaxed(RegistryEntries[i]))

\* two registry entries and a container item all resolve to one directory
C9_Witness ==
    /\ pc = "built"
    /\ Len(plugins) >= 2
    /\ \E i, j \in 1..Len(RegistryEntries) :
          /\ i < j
          /\ LocalDir(RegistryEntries[i]) /\ LocalDir(RegistryEntries[j])
          /\ EntryDir(RegistryEntries[i]) = EntryDir(RegistryEntries[j])
          /\ \E n \in Range(listing) : Qualifies(n) /\ ItemDir(n) = EntryDir(RegistryEntries[i])

(***************************************************************************)
(* C10: every key of plugin_metadata is the resolved path of a discovered  *)
(* plugin whose registry entry is relaxed-validation (strict: false) and   *)
(* which has no manifest file; every other plugin's metadata comes from    *)
(* its manifest alone.                                                     *)
(***************************************************************************)
C10_MetadataOnlyForRelaxedManifestless ==
    pc = "built" =>
        /\ \A k \in DOMAIN plugin_metadata :
              /\ \E p \in Range(plugins) : Resolve(p) = k
              /\ Relaxed(plugin_metadata[k])
              /\ ~HasManifest(k)
        /\ \A p \in Range(plugins) :
              Resolve(p) \notin DOMAIN plugin_metadata =>
                  get_plugin_metadata(p).value \in
                      {JNull} \cup {fs[q].data : q \in {ManifestFile(Resolve(p))} \cap DOMAIN fs}

(***************************************************************************)
(* Facts about the orchestrator                                            *)
(***************************************************************************)
KnownClasses ==
    {BUILTIN_RULES[i] : i \in 1..Len(BUILTIN_RULES)} \cup {c \in Range(ExtUnit) : c.kind = "rule"}
Active(c) == \E i \in 1..Len(rules) : rules[i].cls = c.cls
Invoked(c) == \E k \in 1..Len(ran) : ran[k] = c.cls
Contributed(c) == Cardinality({k \in 1..Len(violations) : violations[k].rule_id = c.rule_id})

\* C3: once run() has been called it has returned normally; a check whose
\* execution raised contributed no violation to the result and every other
\* active check contributed all of the violations it returned.
C3_RaisingCheckIsolated ==
    run_state # "idle" =>
        /\ run_state = "returned"
        /\ \A c \in KnownClasses :
              Contributed(c) = IF Active(c) /\ ~behaviour[c.cls].raises
                               THEN behaviour[c.cls].n ELSE 0

\* a run in which an active check raised before a later active check that
\* returned violations
C3_Witness ==
    /\ run_state = "returned"
    /\ stderr # << >>
    /\ \E i, j \in 1..Len(rules) :
          /\ i < j
          /\ behaviour[rules[i].cls].raises
          /\ ~behaviour[rules[j].cls].raises
          /\ behaviour[rules[j].cls].n > 0
          /\ \E k \in 1..Len(violations) : violations[k].rule_id = rules[j].rule_id

\* C4: every loaded check whose identifier has a configured severity has
\* that severity, and so has every violation it emitted during run().
C4_ConfiguredSeverityApplied ==
    /\ \A i \in 1..Len(rules) :
          (/\ rules[i].rule_id \in DOMAIN config_rules
           /\ "severity" \in DOMAIN config_rules[rules[i].rule_id])
          => rules[i].severity = config_rules[rules[i].rule_id]["severity"]
    /\ \A k \in 1..Len(violations) :
          (/\ violations[k].rule_id \in DOMAIN config_rules
           /\ "severity" \in DOMAIN config_rules[violations[k].rule_id])
          => violations[k].severity = config_rules[violations[k].rule_id]["severity"]

\* the enabled state of an identifier as the configuration resolved it when
\* the orchestrator was constructed
EnabledAtLoad(rule_id) ==
    LET enabled == IF rule_id \in DOMAIN config_file /\ "enabled" \in DOMAIN config_file[rule_id]
                   THEN config_file[rule_id]["enabled"] ELSE JBool(TRUE)
    IN IF enabled = Auto THEN repo_type = "marketplace" ELSE Truthy(enabled)

\* C6: a check that was disabled when the orchestrator was constructed is
\* not in the active list and no run() invokes it, whatever the
\* configuration says later.
C6_DisabledAtLoadNeverActive ==
    \A c \in KnownClasses :
        ~EnabledAtLoad(c.rule_id) => ~Active(c) /\ ~Invoked(c)

\* a run made after the configuration was changed to enable a check that
\* was disabled at construction
C6_Witness ==
    /\ run_state = "returned"
    /\ ran # << >>
    /\ \E c \in KnownClasses : ~EnabledAtLoad(c.rule_id) /\ is_rule_enabled(c.rule_id)

(***************************************************************************)
(* Facts about name and metadata resolution                                *)
(***************************************************************************)
\* the manifest document of p when it can be read as an object, else Absent
ManifestOf(p) ==
    IF Exists(ManifestFile(p)) /\ JsonLoadError(ManifestFile(p)) = ""
       /\ JsonLoadValue(ManifestFile(p)).t = "obj"
    THEN JsonLoadValue(ManifestFile(p)) ELSE Absent
ManifestName(p) ==
    IF ManifestOf(p) # Absent /\ "name" \in DOMAIN ManifestOf(p).f
       /\ Truthy(ManifestOf(p).f["name"])
    THEN ManifestOf(p).f["name"] ELSE Absent
Retained(p) == Resolve(p) \in DOMAIN plugin_metadata
RegistryName(p) ==
    IF Retained(p) /\ "name" \in DOMAIN plugin_metadata[Resolve(p)].f
    THEN plugin_metadata[Resolve(p)].f["name"] ELSE Absent

C12_ManifestFieldsWin ==
    (/\ ret.op = "get_plugin_metadata"
     /\ ret.exc = ""
     /\ ManifestOf(ret.path) # Absent
     /\ Retained(ret.path))
    => \A k \in DOMAIN ManifestOf(ret.path).f \cap DOMAIN plugin_metadata[Resolve(ret.path)].f :
          /\ ret.value.t = "obj"
          /\ k \in DOMAIN ret.value.f
          /\ ret.value.f[k] = ManifestOf(ret.path).f[k]

(***************************************************************************)
(* Facts about main()                                                      *)
(***************************************************************************)
ConfigPath == IF args.config # NoPath THEN args.config ELSE find_config(args.path)
\* the configuration file named by --config is missing, or the file used
\* cannot be parsed
ConfigFileError ==
    \/ args.config # NoPath /\ ~Exists(args.config)
    \/ ConfigPath # NoPath /\ Exists(ConfigPath) /\ YamlLoadError(ConfigPath) # ""
\* a configured external unit is missing or cannot be imported
UnitError == \E i \in 1..Len(custom_rules) : units[custom_rules[i]].status # "ok"

\* C13: a missing or unparseable configuration file and a missing or broken
\* external unit end the invocation with a failure, and in that invocation
\* no check() is executed.
C13_LoadErrorsAreFatal ==
    /\ (lpc # "start" /\ ConfigFileError) => (lpc = "raised" /\ lexc # "")
    /\ (lpc \notin {"start", "new"} /\ UnitError) => (lpc = "raised" /\ lexc # "")
    /\ (ConfigFileError \/ UnitError \/ lpc = "raised") => (ran = << >> /\ run_state = "idle")

\* the configuration named an external unit after one that loads, the
\* second is missing, and the construction of the orchestrator failed
C13_Witness ==
    /\ lpc = "raised"
    /\ lexc = "FileNotFoundError"
    /\ Len(custom_rules) = 2
    /\ units[custom_rules[1]].status = "ok"
    /\ ran = << >>

\* the severity string the configuration gives an identifier is not a severity
InvalidSeverityConfigured(rule_id) ==
    /\ rule_id \in DOMAIN config_rules
    /\ "severity" \in DOMAIN config_rules[rule_id]
    /\ config_rules[rule_id]["severity"] \notin Severities

\* C14: an orchestrator is never constructed from a configuration that gives
\* one of the checks it builds a severity string that is not error, warning
\* or info.
C14_InvalidSeverityRejected ==
    lpc = "loaded" => \A c \in KnownClasses : ~InvalidSeverityConfigured(c.rule_id)

(***************************************************************************)
(* Facts about load order and run order                                    *)
(***************************************************************************)
RECURSIVE UnitClasses(_)
\* the check classes bound in the configured units, unit after unit
UnitClasses(paths) ==
    IF paths = << >> THEN << >>
    ELSE SelectSeq(units[Head(paths)].names, LAMBDA b : b.kind = "rule")
         \o UnitClasses(Tail(paths))
\* catalog order, then configured-source order
LoadOrder == BUILTIN_RULES \o UnitClasses(custom_rules)
EnabledInLoadOrder == SelectSeq(LoadOrder, LAMBDA c : EnabledAtLoad(c.rule_id))

RECURSIVE EmittedInOrder(_)
\* what the checks of a list return, one check after the other
EmittedInOrder(rs) ==
    IF rs = << >> THEN << >>
    ELSE (IF behaviour[Head(rs).cls].raises THEN << >>
          ELSE [k \in 1..behaviour[Head(rs).cls].n |->
                  [rule_id |-> Head(rs).rule_id, severity |-> Head(rs).severity,
                   message |-> k, file_path |-> << >>]])
         \o EmittedInOrder(Tail(rs))

\* C15: the active list is in load order (catalog order, then the units in
\* configured order); run() invokes its checks once each in that order and
\* returns their violations concatenated in that order, unsorted.
C15_RunOrder ==
    /\ lpc = "loaded" =>
          [i \in 1..Len(rules) |-> rules[i].cls]
             = [i \in 1..Len(EnabledInLoadOrder) |-> EnabledInLoadOrder[i].cls]
    /\ run_state # "idle" =>
          /\ ran = [i \in 1..Len(rules) |-> rules[i].cls]
          /\ violations = EmittedInOrder(rules)

\* a run over both units in which a built-in check returned two violations
\* and a check of the second unit returned some
C15_Witness ==
    /\ run_state = "returned"
    /\ Len(custom_rules) = 2
    /\ Len(violations) >= 4
    /\ violations[1].rule_id = "plugin-json-required"
    /\ violations[2].rule_id = "plugin-json-required"
    /\ violations[2].message = 2
    /\ violations[Len(violations)].rule_id \in {"ext-prop", "zed"}
    /\ violations[Len(violations)].rule_id # violations[3].rule_id

\* C18: loading a unit adds at most one instance of each check class to the
\* active list: none for a second name of a class, none for a class the
\* unit imported.
C18_OneInstancePerClass ==
    lpc = "loaded" =>
        \A i, j \in 1..Len(rules) : rules[i].cls = rules[j].cls => i = j

(***************************************************************************)
(* Facts about the constructed context                                     *)
(***************************************************************************)
\* C16: once the context is constructed, no query and no check changes its
\* kind, its plugin list, its retained registry metadata or its registry
\* document.
C16_ReadOnlyAfterConstruction ==
    [][pc = "built" =>
          UNCHANGED <<repo_type, plugins, plugin_metadata, marketplace_data, pc>>]_vars

\* a context holding retained metadata was asked for a plugin's metadata
C16_Witness ==
    /\ pc = "built"
    /\ plugin_metadata # << >>
    /\ ret.op = "get_plugin_metadata"
    /\ ret.exc = ""
    /\ ret.value.t = "obj"
    /\ Resolve(ret.path) \in DOMAIN plugin_metadata

(***************************************************************************)
(* Facts about is_rule_enabled                                             *)
(***************************************************************************)
\* the values Python's bool() maps to False
Falsy == {JBool(FALSE), JNull, JNum(0), JStr(<< >>), JList(<< >>)}
HasEnabledValue(rule_id) ==
    rule_id \in DOMAIN config_rules /\ "enabled" \in DOMAIN config_rules[rule_id]

\* C17: is_rule_enabled answers "the repository is a marketplace" when the
\* configured enabled value is auto, true when the identifier has no
\* configuration or no enabled value, and otherwise the boolean coercion of
\* the configured value.
C17_EnabledResolution ==
    ret.op = "is_rule_enabled" =>
        ret.value = IF ~HasEnabledValue(ret.rule_id) THEN TRUE
                    ELSE IF config_rules[ret.rule_id]["enabled"] = Auto
                    THEN repo_type = "marketplace"
                    ELSE config_rules[ret.rule_id]["enabled"] \notin Falsy

\* an auto rule was found disabled for a repository that is no marketplace
C17_Witness ==
    /\ ret.op = "is_rule_enabled"
    /\ HasEnabledValue(ret.rule_id)
    /\ config_rules[ret.rule_id]["enabled"] = Auto
    /\ repo_type # "marketplace"
    /\ ret.value = FALSE

(***************************************************************************)
(* Facts about remote sources and repeated construction                    *)
(***************************************************************************)
IsRemote(e) ==
    e.t = "obj" /\ "source" \in DOMAIN e.f /\ e.f["source"].t = "obj" /\ Truthy(e.f["source"])
RemoteEntries == {i \in 1..Len(RegistryEntries) : IsRemote(RegistryEntries[i])}
RemoteLogs == {k \in 1..Len(log) : log[k].level = "info" /\ log[k].what = "uses remote source"}
FromContainer(p) == Len(p) = 3 /\ SubSeq(p, 1, 2) = PluginsDir

\* C19: registry entries with a structured remote source do not make
\* construction fail, each produces one informational log record naming the
\* entry, and every plugin found outside the plugins container comes from an
\* entry with a local path source.
C19_RemoteSourceSkipped ==
    /\ (pc # "new" /\ RemoteEntries # {} /\ AllObjects(RegistryEntries) /\ ~ContainerIsFile)
          => pc = "built"
    /\ pc = "built" =>
          /\ Cardinality(RemoteLogs) = Cardinality(RemoteEntries)
          /\ \A i \in RemoteEntries :
                "name" \in DOMAIN RegistryEntries[i].f
                => \E k \in RemoteLogs : log[k].name = RegistryEntries[i].f["name"]
          /\ \A n \in 1..Len(plugins) :
                \/ FromContainer(plugins[n])
                \/ repo_type = "single-plugin"
                \/ \E j \in 1..Len(RegistryEntries) :
                      /\ LocalDir(RegistryEntries[j])
                      /\ EntryDir(RegistryEntries[j]) = Resolve(plugins[n])

\* a registry with a remote entry and a local entry was scanned: the local
\* one was found, the remote one logged
C19_Witness ==
    /\ pc = "built"
    /\ RemoteEntries # {}
    /\ RemoteLogs # {}
    /\ \E n \in 1..Len(plugins) : ~FromContainer(plugins[n])

Some(severity) == \E k \in 1..Len(violations) : violations[k].severity = severity
StrictSet == args.strict \/ config_strict = JBool(TRUE)

\* C21: after a completed run the exit status is non-zero exactly when there
\* is an error, or strict is set and there is a warning; the violations are
\* what the checks returned, whatever strict is.
C21_ExitCodePolicy ==
    exit_code # -1 =>
        /\ exit_code \in {0, 1}
        /\ exit_code = 1 <=> (Some("error") \/ (StrictSet /\ Some("warning")))
        /\ violations = EmittedInOrder(rules)

\* strict was set and the run found a warning and an info but no error
C21_Witness ==
    /\ exit_code = 1
    /\ StrictSet
    /\ Some("warning")
    /\ Some("info")
    /\ ~Some("error")

\* C22: the report of a run whose only findings are info-level differs from
\* the report of a run without findings, for the same verbose setting.
C22_InfoOnlyReportedDistinctly ==
    (exit_code # -1 /\ violations # << >> /\ ~Some("error") /\ ~Some("warning"))
    => stdout # format_results(<< >>, args.verbose)

(***************************************************************************)
(* Facts about the default configuration                                   *)
(***************************************************************************)
CatalogIds == {BUILTIN_RULES[k].rule_id : k \in 1..Len(BUILTIN_RULES)}
DisabledIn(cfg) == {id \in DOMAIN cfg : cfg[id]["enabled"] = JBool(FALSE)}

\* C23: the default configuration has an entry with enabled and severity for
\* every check of the built-in catalog, and exactly commands-dir-required and
\* commands-exist are disabled in it.
C23_DefaultCoversCatalog ==
    lpc # "start" =>
        /\ \A id \in CatalogIds :
              id \in DOMAIN config_file /\ DOMAIN config_file[id] = {"enabled", "severity"}
        /\ DisabledIn(config_file) = {"commands-dir-required", "commands-exist"}

\* C24: an orchestrator constructed from the default configuration with every
\* listed rule switched off, and no external checks, has no active check.
C24_AllDisabledLoadsNothing ==
    (lpc = "loaded" /\ DisabledIn(config_rules) = DOMAIN config_rules /\ custom_rules = << >>)
    => rules = << >>

(***************************************************************************)
(* Facts about the registration check                                      *)
(***************************************************************************)
RegistryNames == {DictGet(RegistryEntries[k], "name", JNull) : k \in 1..Len(RegistryEntries)}
Resolves(p) == get_plugin_name(p).exc = ""
Unregistered == SelectSeq(plugins, LAMBDA p : Resolves(p) /\ get_plugin_name(p).value \notin RegistryNames)

\* C25: in a marketplace with a registry file the plugin the container scan
\* found and the registry does not list is discovered, and when every plugin's
\* name resolves the registration check returns, in discovery order, one
\* violation naming each discovered plugin whose name is no registry entry's
\* name, and nothing else.
C25_OneViolationPerUnregistered ==
    /\ pc = "built" => \E i \in 1..Len(plugins) : plugins[i] = PluginsDir \o <<"b">>
    /\ (ret.op = "marketplace-registration" /\ \A i \in 1..Len(plugins) : Resolves(plugins[i]))
       => /\ ret.exc = ""
          /\ Len(ret.value) = Len(Unregistered)
          /\ \A k \in 1..Len(ret.value) :
                /\ ret.value[k].rule_id = "marketplace-registration"
                /\ ret.value[k].file_path = RegistryFile
                /\ k <= Len(Unregistered)
                      => ret.value[k].message = get_plugin_name(Unregistered[k]).value

\* the check ran over three plugins: b, which the registry does not list, was
\* reported, and a plugin registered under its manifest name was not
C25_Witness ==
    /\ ret.op = "marketplace-registration"
    /\ ret.exc = ""
    /\ Len(plugins) = 3
    /\ Len(ret.value) < Len(plugins)
    /\ \E k \in 1..Len(ret.value) : ret.value[k].message = JStr(<<"b">>)
    /\ \E i \in 1..Len(plugins) :
          /\ get_plugin_name(plugins[i]).value = JStr(<<"m1">>)
          /\ JStr(<<"m1">>) \in RegistryNames

HasMarker(dir) == ManifestDir(dir) \in DOMAIN fs
HasContent(dir) == \E x \in {"commands", "agents", "skills", "hooks"} : (dir \o <<x>>) \in DOMAIN fs
Discovered(dir) == \E i \in 1..Len(plugins) : Resolve(plugins[i]) = dir

\* C27: a registry source that resolves to an existing directory inside the
\* root, and that the container scan did not find, is among the plugins
\* exactly when some entry naming it is relaxed or the directory holds a
\* manifest-directory marker or one of commands, agents, skills, hooks.
C27_AcceptedIffMarkedOrRelaxed ==
    pc = "built" =>
        \A i \in 1..Len(RegistryEntries) :
            LET dir == EntryDir(RegistryEntries[i])
            IN (LocalDir(RegistryEntries[i]) /\ ~FromContainer(dir)) =>
                  (Discovered(dir) <=>
                      \E j \in 1..Len(RegistryEntries) :
                          /\ LocalDir(RegistryEntries[j])
                          /\ EntryDir(RegistryEntries[j]) = dir
                          /\ (HasMarker(dir) \/ HasContent(dir) \/ Relaxed(RegistryEntries[j])))

(***************************************************************************)
(* Facts about the container scan                                          *)
(***************************************************************************)
\* the container names of the explored marketplaces
ContainerNames == {"plugins", "extras"}
Children(c) ==
    {q \in DOMAIN fs : Len(q) = Len(Root) + 2 /\ SubSeq(q, 1, Len(Root) + 1) = Root \o <<c>>}
Listed(q) == \E i \in 1..Len(plugins) : plugins[i] = q
QualifiesForScan(q) ==
    /\ fs[q].kind = "dir"
    /\ ~StartsWithDot(q[Len(q)])
    /\ (ManifestDir(q) \in DOMAIN fs \/ (q \o <<"commands">>) \in DOMAIN fs)

\* C28: in a marketplace, for each plugins-container name, the immediate
\* entries of the container that are among the plugins are exactly its
\* non-hidden subdirectories holding a manifest-directory marker or a
\* commands directory.
C28_EveryContainerScanned ==
    (pc = "built" /\ repo_type = "marketplace") =>
        \A c \in ContainerNames : \A q \in Children(c) : Listed(q) <=> QualifiesForScan(q)

(***************************************************************************)
(* Facts about find_config                                                 *)
(***************************************************************************)
\* dir is path, or a directory above it
AtOrAbove(dir, path) == Len(dir) <= Len(path) /\ SubSeq(path, 1, Len(dir)) = dir
HasConfig(dir) == \E n \in ConfigNames : (dir \o n) \in DOMAIN fs
ConfigOf(dir) ==
    IF (dir \o <<".claudelint.yaml">>) \in DOMAIN fs THEN dir \o <<".claudelint.yaml">>
    ELSE dir \o <<".claudelint.yml">>

\* C29: find_config returns the configuration file (.claudelint.yaml before
\* .claudelint.yml) of the nearest directory at or above the start, the
\* filesystem root included, that has one, and None only when none has one.
C29_NearestConfigUpToRoot ==
    ret.op = "find_config" =>
        LET having == {dir \in Chain : AtOrAbove(dir, ret.start) /\ HasConfig(dir)}
        IN IF having = {} THEN ret.value = NoPath
           ELSE \E dir \in having :
                   /\ \A other \in having : Len(other) <= Len(dir)
                   /\ ret.value = ConfigOf(dir)

(***************************************************************************)
(* Facts about duplicates in the active list                               *)
(***************************************************************************)
\* C30: no two active checks carry the same rule identifier, whatever the
\* list of external sources, and no run reports the same finding twice.
C30_NoDuplicateRuleIds ==
    /\ lpc = "loaded" =>
          \A i, j \in 1..Len(rules) : rules[i].rule_id = rules[j].rule_id => i = j
    /\ run_state = "returned" =>
          \A i, j \in 1..Len(violations) : violations[i] = violations[j] => i = j

====
